---------------------------- MODULE Spec2Model ----------------------------
(***************************************************************************)
(* Model of the hotel room-service voice pipeline                          *)
(* (backend/hotel_room_service_tavus.py): the catalog cache, the order     *)
(* manager, the quantity parser, the menu item resolver, the flow handler  *)
(* functions and the node table of hotel_room_service_flow.                *)
(*                                                                         *)
(* Python strings that the code inspects (lower(), strip(), split(), `in`) *)
(* are sequences of one-character strings.  Python floats are binary       *)
(* floating point numbers with a MantBits-bit significand, rounded to      *)
(* nearest-even after every operation, counted in units of the smallest    *)
(* price step.                                                             *)
(***************************************************************************)
EXTENDS Integers, Sequences, FiniteSets, TLC

----------------------------------------------------------------------------
(* Bounds of the model *)

\* significand width of the modelled float (an IEEE double has 53)
MantBits == 3
\* most lines an order is followed for
MaxLines == 2
\* most POSTs to the Order Service that are followed
MaxPosts == 1
\* most OrderManager.remove_item calls that are followed
MaxRemoves == 2

----------------------------------------------------------------------------
(* Python values *)

\* A value is a record of its type k, its characters v (a str) and its
\* number n (an int).
\* the value None
PyNone == [k |-> "none", v |-> <<>>, n |-> 0]
\* a key that is absent from an argument dictionary
Absent == [k |-> "absent", v |-> <<>>, n |-> 0]
\* a str
PyStr(s) == [k |-> "str", v |-> s, n |-> 0]
\* an int
PyInt(i) == [k |-> "int", v |-> <<>>, n |-> i]

IsStr(x) == x.k = "str"
IsInt(x) == x.k = "int"

\* args[key]: raises KeyError when the key is absent
HasKey(x) == x.k # "absent"
\* args.get(key, default)
Get(x, default) == IF HasKey(x) THEN x ELSE default
\* truthiness of an optional str
Truthy(x) == (IsStr(x) /\ Len(x.v) > 0) \/ (IsInt(x) /\ x.n # 0)

----------------------------------------------------------------------------
(* str methods *)

UpperChars == <<"A","B","C","D","E","F","G","H","I","J","K","L","M",
                "N","O","P","Q","R","S","T","U","V","W","X","Y","Z">>
LowerChars == <<"a","b","c","d","e","f","g","h","i","j","k","l","m",
                "n","o","p","q","r","s","t","u","v","w","x","y","z">>
DigitChars == <<"0","1","2","3","4","5","6","7","8","9">>

LowerChar(c) ==
  IF \E i \in 1..Len(UpperChars) : UpperChars[i] = c
  THEN LowerChars[CHOOSE i \in 1..Len(UpperChars) : UpperChars[i] = c]
  ELSE c

\* str.lower()
Lower(s) == [i \in 1..Len(s) |-> LowerChar(s[i])]

RECURSIVE LStrip(_)
LStrip(s) == IF Len(s) > 0 /\ Head(s) = " " THEN LStrip(Tail(s)) ELSE s

RECURSIVE RStrip(_)
RStrip(s) ==
  IF Len(s) > 0 /\ s[Len(s)] = " " THEN RStrip(SubSeq(s, 1, Len(s) - 1)) ELSE s

\* str.strip()
Strip(s) == RStrip(LStrip(s))

\* a in b, for two strs
IsSubstr(a, b) ==
  \E i \in 0..(Len(b) - Len(a)) : SubSeq(b, i + 1, i + Len(a)) = a

IsDigitChar(c) == \E i \in 1..Len(DigitChars) : DigitChars[i] = c
DigitVal(c) == (CHOOSE i \in 1..Len(DigitChars) : DigitChars[i] = c) - 1

\* str.isdigit()
IsDigit(s) == Len(s) > 0 /\ \A i \in 1..Len(s) : IsDigitChar(s[i])

\* int(s) for a str of digits
RECURSIVE ToInt(_)
ToInt(s) ==
  IF Len(s) = 0 THEN 0
  ELSE 10 * ToInt(SubSeq(s, 1, Len(s) - 1)) + DigitVal(s[Len(s)])

\* str.split(sep) for a one-character separator: the list of parts
RECURSIVE SplitOn(_, _)
SplitOn(s, sep) ==
  IF \A i \in 1..Len(s) : s[i] # sep THEN <<s>>
  ELSE LET p == CHOOSE i \in 1..Len(s) :
                  s[i] = sep /\ \A j \in 1..(i - 1) : s[j] # sep
       IN  <<SubSeq(s, 1, p - 1)>> \o SplitOn(SubSeq(s, p + 1, Len(s)), sep)

\* set(str.split()): the set of whitespace-separated words
Words(s) == {w \in {SplitOn(s, " ")[i] : i \in 1..Len(SplitOn(s, " "))} : Len(w) > 0}

\* re.findall(r'\d+', s)[0]: the first run of digits, <<>> when there is none
FirstDigitRun(s) ==
  IF \A i \in 1..Len(s) : ~IsDigitChar(s[i]) THEN <<>>
  ELSE LET b == CHOOSE i \in 1..Len(s) :
                  IsDigitChar(s[i]) /\ \A j \in 1..(i - 1) : ~IsDigitChar(s[j])
           e == CHOOSE i \in b..Len(s) :
                  /\ \A j \in b..i : IsDigitChar(s[j])
                  /\ (i = Len(s) \/ ~IsDigitChar(s[i + 1]))
       IN  SubSeq(s, b, e)

----------------------------------------------------------------------------
(* float arithmetic *)

RECURSIVE Pow2(_)
Pow2(n) == IF n = 0 THEN 1 ELSE 2 * Pow2(n - 1)

\* the exponent at which x fits a MantBits-bit significand
RECURSIVE ShiftOf(_, _)
ShiftOf(x, e) ==
  IF x \div Pow2(e) < Pow2(MantBits) THEN e ELSE ShiftOf(x, e + 1)

\* round a non-negative exact value to the nearest float, ties to even
FRoundNat(x) ==
  LET e    == ShiftOf(x, 0)
      m    == x \div Pow2(e)
      rem  == x % Pow2(e)
      half == IF e = 0 THEN 0 ELSE Pow2(e - 1)
      up   == e > 0 /\ (rem > half \/ (rem = half /\ m % 2 = 1))
  IN  (IF up THEN m + 1 ELSE m) * Pow2(e)

FRound(x) == IF x < 0 THEN 0 - FRoundNat(0 - x) ELSE FRoundNat(x)

\* a + b, a - b, a * b on floats
FAdd(a, b) == FRound(a + b)
FSub(a, b) == FRound(a - b)
FMul(a, b) == FRound(a * b)

----------------------------------------------------------------------------
(* Utility Functions *)

text_to_num_pairs ==
  {
    <<<<"z","e","r","o">>, 0>>,
    <<<<"o","n","e">>, 1>>,
    <<<<"t","w","o">>, 2>>,
    <<<<"t","h","r","e","e">>, 3>>,
    <<<<"f","o","u","r">>, 4>>,
    <<<<"f","i","v","e">>, 5>>,
    <<<<"s","i","x">>, 6>>,
    <<<<"s","e","v","e","n">>, 7>>,
    <<<<"e","i","g","h","t">>, 8>>,
    <<<<"n","i","n","e">>, 9>>,
    <<<<"t","e","n">>, 10>>,
    <<<<"e","l","e","v","e","n">>, 11>>,
    <<<<"t","w","e","l","v","e">>, 12>>,
    <<<<"t","h","i","r","t","e","e","n">>, 13>>,
    <<<<"f","o","u","r","t","e","e","n">>, 14>>,
    <<<<"f","i","f","t","e","e","n">>, 15>>,
    <<<<"s","i","x","t","e","e","n">>, 16>>,
    <<<<"s","e","v","e","n","t","e","e","n">>, 17>>,
    <<<<"e","i","g","h","t","e","e","n">>, 18>>,
    <<<<"n","i","n","e","t","e","e","n">>, 19>>,
    <<<<"t","w","e","n","t","y">>, 20>>,
    <<<<"t","h","i","r","t","y">>, 30>>,
    <<<<"f","o","r","t","y">>, 40>>,
    <<<<"f","i","f","t","y">>, 50>>,
    <<<<"s","i","x","t","y">>, 60>>,
    <<<<"s","e","v","e","n","t","y">>, 70>>,
    <<<<"e","i","g","h","t","y">>, 80>>,
    <<<<"n","i","n","e","t","y">>, 90>>,
    <<<<"h","u","n","d","r","e","d">>, 100>>
  }

text_to_num_keys == {p[1] : p \in text_to_num_pairs}
text_to_num(w) == (CHOOSE p \in text_to_num_pairs : p[1] = w)[2]

\* convert_text_to_number without the table of number words
convert_text_to_number_digits_only(text) ==
  IF IsInt(text) THEN text.n
  ELSE IF IsStr(text) /\ IsDigit(text.v) THEN ToInt(text.v)
  ELSE IF ~IsStr(text) THEN 1
  ELSE LET t == Strip(Lower(text.v))
       IN  IF FirstDigitRun(t) # <<>> THEN ToInt(FirstDigitRun(t)) ELSE 1

\* convert_text_to_number(text)
convert_text_to_number(text) ==
  IF IsInt(text) THEN text.n
  ELSE IF IsStr(text) /\ IsDigit(text.v) THEN ToInt(text.v)
  ELSE IF ~IsStr(text) THEN 1
  ELSE LET t     == Strip(Lower(text.v))
           parts == SplitOn(t, "-")
       IN  IF t \in text_to_num_keys THEN text_to_num(t)
           ELSE IF /\ Len(parts) = 2
                   /\ parts[1] \in text_to_num_keys
                   /\ parts[2] \in text_to_num_keys
                THEN text_to_num(parts[1]) + text_to_num(parts[2])
           ELSE IF t \in {<<"a">>, <<"a","n">>} THEN 1
           ELSE IF FirstDigitRun(t) # <<>> THEN ToInt(FirstDigitRun(t))
           ELSE 1

\* the first element of a list that satisfies a test, 0 when there is none
FirstIndex(seq, Test(_)) ==
  IF \E i \in 1..Len(seq) : Test(seq[i])
  THEN CHOOSE i \in 1..Len(seq) : Test(seq[i]) /\ \A j \in 1..(i - 1) : ~Test(seq[j])
  ELSE 0

\* find_menu_item_by_name returning the first item that matches in any way
find_menu_item_by_name_first_match(item_name, menu_items) ==
  LET item_name_lower == Lower(item_name)
      item_words      == Words(item_name_lower)
      Matches(item) ==
        \/ Lower(item.name) = item_name_lower
        \/ IsSubstr(item_name_lower, Lower(item.name))
        \/ IsSubstr(Lower(item.name), item_name_lower)
        \/ 10 * Cardinality(item_words \cap Words(Lower(item.name)))
             >= 7 * Cardinality(item_words)
  IN  FirstIndex(menu_items, Matches)

\* find_menu_item_by_name(item_name, menu_items): the index of the item
\* returned, 0 for None
find_menu_item_by_name_all_words(item_name, menu_items) ==
  LET item_name_lower == Lower(item_name)
      item_words      == Words(item_name_lower)
      Exact(item)   == Lower(item.name) = item_name_lower
      Partial(item) == \/ IsSubstr(item_name_lower, Lower(item.name))
                       \/ IsSubstr(Lower(item.name), item_name_lower)
      WordMatch(item) == item_words \subseteq Words(Lower(item.name))
  IN  IF FirstIndex(menu_items, Exact) # 0 THEN FirstIndex(menu_items, Exact)
      ELSE IF FirstIndex(menu_items, Partial) # 0 THEN FirstIndex(menu_items, Partial)
      ELSE FirstIndex(menu_items, WordMatch)

find_menu_item_by_name(item_name, menu_items) ==
  LET item_name_lower == Lower(item_name)
      item_words      == Words(item_name_lower)
      Exact(item)   == Lower(item.name) = item_name_lower
      Partial(item) == \/ IsSubstr(item_name_lower, Lower(item.name))
                       \/ IsSubstr(Lower(item.name), item_name_lower)
      WordMatch(item) ==
        10 * Cardinality(item_words \cap Words(Lower(item.name)))
          >= 7 * Cardinality(item_words)
  IN  IF FirstIndex(menu_items, Exact) # 0 THEN FirstIndex(menu_items, Exact)
      ELSE IF FirstIndex(menu_items, Partial) # 0 THEN FirstIndex(menu_items, Partial)
      ELSE FirstIndex(menu_items, WordMatch)

----------------------------------------------------------------------------
(* The collaborating services, as the pipeline sees them *)

\* an id that is None
NoneId == "None"
\* a list
PyList(s) == [k |-> "list", v |-> s]
\* the cached list is None
NoList == [k |-> "none", v |-> <<>>]

S_101       == <<"1","0","1">>
S_999       == <<"9","9","9">>
S_102       == <<"1","0","2">>
S_Omar      == <<"O","m","a","r">>
S_Jane      == <<"J","a","n","e">>
S_Breakfast == <<"B","r","e","a","k","f","a","s","t">>
S_Drinks    == <<"D","r","i","n","k","s">>
S_Pancakes  == <<"P","a","n","c","a","k","e","s">>
S_Coffee    == <<"C","o","f","f","e","e">>
S_Sushi     == <<"S","u","s","h","i">>
S_yes       == <<"y","e","s">>
S_no        == <<"n","o">>
S_No        == <<"N","o">>
S_none      == <<"n","o","n","e">>
S_nothing   == <<"n","o","t","h","i","n","g">>
S_cancel    == <<"c","a","n","c","e","l">>
S_stop      == <<"s","t","o","p">>
S_negative  == <<"n","e","g","a","t","i","v","e">>
S_ice       == <<"i","c","e">>
S_hot       == <<"h","o","t">>
S_two       == <<"t","w","o">>

\* Guest Service: the guests by room number
GuestDB ==
  { [room_number |-> S_101, id |-> "guest1", name |-> S_Jane],
    [room_number |-> S_102, id |-> "guest2", name |-> S_Omar] }

\* the responses GET /api/v1/guests/room/{room_number} can give
NoGuest == [room_number |-> <<>>, id |-> NoneId, name |-> <<>>]

GuestResponses(room_number) ==
  {[status |-> "200", guest |-> g] : g \in {g \in GuestDB : g.room_number = room_number}}
  \cup {[status |-> s, guest |-> NoGuest] :
          s \in (IF \E g \in GuestDB : g.room_number = room_number
                 THEN {} ELSE {"404"}) \cup {"500", "exception"}}

\* Catalog Service: GET /api/v1/categories/?is_active=true
CatalogCategories ==
  << [id |-> "cat1", name |-> S_Breakfast, is_active |-> TRUE],
     [id |-> "cat2", name |-> S_Drinks,    is_active |-> TRUE] >>

\* Catalog Service: the menu items it holds
MenuItemDB ==
  << [id |-> "item1", name |-> S_Pancakes, price |-> 7, category_id |-> "cat1",
      is_available |-> TRUE],
     [id |-> "item3", name |-> S_Sushi,    price |-> 9, category_id |-> "cat1",
      is_available |-> FALSE],
     [id |-> "item2", name |-> S_Coffee,   price |-> 5, category_id |-> "cat2",
      is_available |-> TRUE] >>

\* Catalog Service answering without the is_available filter
CatalogItems_unfiltered == MenuItemDB

\* Catalog Service: GET /api/v1/menu-items/?is_available=true
CatalogItems == SelectSeq(MenuItemDB, LAMBDA item : item.is_available)

\* the outcomes of one GET to the Catalog Service
FetchOutcomes == {"200", "500", "exception"}

\* the outcomes of one POST to the Order Service
PostOutcomes == {"200", "201", "202", "400", "500", "exception"}

----------------------------------------------------------------------------
(* State *)

VARIABLES
  service_cache,   \* the global ServiceCache
  order_manager,   \* the global OrderManager
  node,            \* the node of the flow the session is on
  last,            \* the last call: function, result, next node or exception
  posts,           \* POSTs issued to the Order Service so far
  removes,         \* calls of OrderManager.remove_item so far
  util,            \* the call of a utility function: its inputs and result
  tasks,           \* the tasks that read the ServiceCache, and where they are
  fetches,         \* GETs the Catalog Service has received, by endpoint
  sessions,        \* the voice sessions: their process and its order manager
  db,              \* the Order Service: its orders, order items and last response
  voice,           \* the call of OrderService.create_order_from_voice
  submission,      \* the session whose order is being submitted
  calls,           \* the voice calls the API has started: record, process, registry
  graph            \* the turn of the LangGraph concierge: state and node of the walk

vars == <<service_cache, order_manager, node, last, posts, removes,
          util, tasks, fetches, sessions, db, voice, submission, calls, graph>>

\* ServiceCache.__init__
ServiceCacheInit ==
  [categories |-> NoList, menu_items |-> NoList, guest_info |-> NoneId]

\* a reset that leaves a total behind
reset_total_left ==
  [guest_id         |-> NoneId,
   guest_name       |-> PyNone,
   room_number      |-> PyNone,
   items            |-> <<>>,
   special_requests |-> PyNone,
   delivery_notes   |-> PyNone,
   order_id         |-> NoneId,
   total_amount     |-> 1]

\* OrderManager.reset: the order in its initial state
reset ==
  [guest_id         |-> NoneId,
   guest_name       |-> PyNone,
   room_number      |-> PyNone,
   items            |-> <<>>,
   special_requests |-> PyNone,
   delivery_notes   |-> PyNone,
   order_id         |-> NoneId,
   total_amount     |-> 0]

\* a result that carries no data
NoData == [none |-> TRUE]

\* a handler returned (result, next_node)
Returned(fn, status, next, data) ==
  [fn |-> fn, raised |-> "none", status |-> status, next |-> next, data |-> data]

\* a handler raised
Raised(fn, exc) ==
  [fn |-> fn, raised |-> exc, status |-> "none", next |-> "none", data |-> NoData]

\* no utility function is being called
NoCall == [fn |-> "none", state |-> "done", menu |-> <<>>, text |-> PyNone, result |-> 0]

\* the endpoints of the Catalog Service
Endpoints == {"categories", "menu_items"}

\* no task reads the cache
NoTasks == <<>>
NoFetches == [e \in Endpoints |-> 0]

\* no voice session has been started
NoSessions == <<>>

\* what the calls of the handlers of one process leave alone
\* the Order Service holds no order and has answered nothing
NoResponse == [status |-> "none", detail |-> "none", order_id |-> NoneId, total_amount |-> 0]
NoRequest == [guest_id |-> NoneId, order_items |-> <<>>,
              special_requests |-> PyNone, delivery_notes |-> PyNone]
NoDb == [orders |-> <<>>, order_items |-> <<>>, request |-> NoRequest, response |-> NoResponse]

\* create_order_from_voice is not called
NoVoiceCall == <<>>

\* no submission is followed
NoSubmission == <<>>

\* no voice call has been started through the API
NoCalls == <<>>

\* no turn of the concierge runs
NoGraph == <<>>

others == <<util, tasks, fetches, sessions, db, voice, submission, calls, graph>>

Init ==
  /\ service_cache = ServiceCacheInit
  /\ order_manager = reset
  /\ node = "greeting"
  /\ last = Returned("init", "none", "greeting", NoData)
  /\ posts = 0
  /\ removes = 0
  /\ util = NoCall
  /\ tasks = NoTasks
  /\ fetches = NoFetches
  /\ sessions = NoSessions
  /\ db = NoDb
  /\ voice = NoVoiceCall
  /\ submission = NoSubmission
  /\ calls = NoCalls
  /\ graph = NoGraph

----------------------------------------------------------------------------
(* ServiceCache *)

\* refresh_menu_data, "Fetch categories": the cache once the GET has answered
refresh_categories(cache, fc) ==
  [cache EXCEPT
     !.categories = IF fc = "200" THEN PyList(CatalogCategories) ELSE PyList(<<>>)]

\* "Fetch menu items" leaving menu_items as it is when the GET fails
refresh_menu_items_keep(cache, fi) ==
  [cache EXCEPT !.menu_items = IF fi = "200" THEN PyList(CatalogItems) ELSE @]

\* refresh_menu_data, "Fetch menu items": the cache once the GET has answered
refresh_menu_items(cache, fi) ==
  [cache EXCEPT
     !.menu_items = IF fi = "200" THEN PyList(CatalogItems) ELSE PyList(<<>>)]

\* refresh_menu_data leaving a list untouched when its fetch fails
refresh_menu_data_keep(cache, fc, fi) ==
  [cache EXCEPT
     !.categories = IF fc = "200" THEN PyList(CatalogCategories) ELSE @,
     !.menu_items = IF fi = "200" THEN PyList(CatalogItems) ELSE @]

\* ServiceCache.refresh_menu_data, given the outcomes of its two fetches
refresh_menu_data(cache, fc, fi) ==
  [cache EXCEPT
     !.categories = IF fc = "200" THEN PyList(CatalogCategories) ELSE PyList(<<>>),
     !.menu_items = IF fi = "200" THEN PyList(CatalogItems) ELSE PyList(<<>>)]

\* ServiceCache.get_categories: the cache after the call
get_categories(cache, force_refresh, fc, fi) ==
  IF cache.categories.k = "none" \/ force_refresh
  THEN refresh_menu_data(cache, fc, fi) ELSE cache

\* ServiceCache.get_menu_items: the cache after the call
get_menu_items(cache, force_refresh, fc, fi) ==
  IF cache.menu_items.k = "none" \/ force_refresh
  THEN refresh_menu_data(cache, fc, fi) ELSE cache

----------------------------------------------------------------------------
(* OrderManager *)

\* OrderManager.add_item: the order after the call
add_item(om, menu_item, quantity, special_notes) ==
  LET item == [menu_item_id  |-> menu_item.id,
               name          |-> menu_item.name,
               quantity      |-> quantity,
               unit_price    |-> menu_item.price,
               total_price   |-> FMul(menu_item.price, quantity),
               special_notes |-> special_notes]
  IN  [om EXCEPT !.items = Append(@, item),
                 !.total_amount = FAdd(@, item.total_price)]

\* the last matching line instead of the first
remove_index_last(om, item_name) ==
  LET Match(item) == Lower(item.name) = Lower(item_name)
      hits == {i \in 1..Len(om.items) : Match(om.items[i])}
  IN  IF hits = {} THEN 0 ELSE CHOOSE i \in hits : \A j \in hits : j <= i

\* the line OrderManager.remove_item removes, 0 when no line matches
remove_index(om, item_name) ==
  LET Match(item) == Lower(item.name) = Lower(item_name)
  IN  FirstIndex(om.items, Match)

\* OrderManager.remove_item: the order after the call
remove_item(om, item_name) ==
  LET i == remove_index(om, item_name)
  IN  IF i = 0 THEN om
      ELSE [om EXCEPT
              !.total_amount = FSub(@, om.items[i].total_price),
              !.items = SubSeq(@, 1, i - 1) \o SubSeq(@, i + 1, Len(@))]

----------------------------------------------------------------------------
(* Hotel Room Service Flow Configuration *)

\* the node table with an item_not_found node that cannot retry the item
hotel_room_service_flow_no_retry ==
  [greeting           |-> {"request_room_number"},
   request_room       |-> {"validate_room"},
   invalid_room       |-> {"validate_room"},
   welcome_guest      |-> {"show_categories", "select_category"},
   category_selection |-> {"select_category"},
   category_not_found |-> {"select_category"},
   show_items         |-> {"add_to_order", "select_category"},
   item_not_found     |-> {"select_category"},
   item_added         |-> {"continue_ordering"},
   request_special    |-> {"set_special_requests"},
   confirm_order      |-> {"place_order"},
   empty_order        |-> {"show_categories"},
   order_failed       |-> {"end_call"},
   order_complete     |-> {"end_call"},
   goodbye            |-> {}]

\* the node table with an order_failed node that offers the submission again
hotel_room_service_flow_resubmit ==
  [greeting           |-> {"request_room_number"},
   request_room       |-> {"validate_room"},
   invalid_room       |-> {"validate_room"},
   welcome_guest      |-> {"show_categories", "select_category"},
   category_selection |-> {"select_category"},
   category_not_found |-> {"select_category"},
   show_items         |-> {"add_to_order", "select_category"},
   item_not_found     |-> {"select_category", "add_to_order"},
   item_added         |-> {"continue_ordering"},
   request_special    |-> {"set_special_requests"},
   confirm_order      |-> {"place_order"},
   empty_order        |-> {"show_categories"},
   order_failed       |-> {"place_order", "end_call"},
   order_complete     |-> {"end_call"},
   goodbye            |-> {}]

\* the node table with a request_room node that lets the guest go on to
\* the menu without a validated room
hotel_room_service_flow_skip_room ==
  [hotel_room_service_flow_no_retry EXCEPT
     !.request_room = {"validate_room", "show_categories"},
     !.item_not_found = {"select_category", "add_to_order"}]

\* the node table with a show_items node that lets the guest go on to the
\* special requests without an item
hotel_room_service_flow_skip_item ==
  [hotel_room_service_flow_no_retry EXCEPT
     !.show_items = {"add_to_order", "select_category", "continue_ordering"},
     !.item_not_found = {"select_category", "add_to_order"}]

\* hotel_room_service_flow["nodes"]: the functions each node offers
hotel_room_service_flow ==
  [greeting           |-> {"request_room_number"},
   request_room       |-> {"validate_room"},
   invalid_room       |-> {"validate_room"},
   welcome_guest      |-> {"show_categories", "select_category"},
   category_selection |-> {"select_category"},
   category_not_found |-> {"select_category"},
   show_items         |-> {"add_to_order", "select_category"},
   item_not_found     |-> {"select_category", "add_to_order"},
   item_added         |-> {"continue_ordering"},
   request_special    |-> {"set_special_requests"},
   confirm_order      |-> {"place_order"},
   empty_order        |-> {"show_categories"},
   order_failed       |-> {"end_call"},
   order_complete     |-> {"end_call"},
   goodbye            |-> {}]

\* the nodes the flow declares
Nodes == DOMAIN hotel_room_service_flow

\* hotel_room_service_flow["initial_node"]
initial_node == "greeting"

\* the functions the session's current node offers
Functions(n) == IF n \in Nodes THEN hotel_room_service_flow[n] ELSE {}

----------------------------------------------------------------------------
(* The arguments the handlers are called with *)

RoomArgs ==
  {Absent, PyStr(<<" ">> \o S_101), PyStr(S_999), PyStr(<<" ">> \o S_999 \o <<" ">>)}
CategoryArgs ==
  {Absent, PyStr(S_Breakfast), PyStr(<<"b","r","e","a","k">>), PyStr(S_Sushi)}
\* item_name, quantity, special_notes
AddToOrderArgs ==
  { <<Absent, Absent, Absent>>,
    <<PyStr(S_Pancakes), PyStr(S_two), Absent>>,
    <<PyStr(<<"p","a","n","c","a","k","e">>), PyInt(2), Absent>>,
    <<PyStr(S_Coffee), Absent, PyStr(S_hot)>>,
    <<PyStr(S_Sushi), PyInt(1), Absent>> }
ResponseArgs == {Absent, PyStr(S_yes), PyStr(<<"N","o",","," ","t","h","a","t","'","s"," ","a","l","l">>)}
\* requests, notes
SpecialArgs ==
  { <<Absent, Absent>>, <<PyStr(S_none), PyStr(S_No)>>, <<PyStr(S_ice), PyStr(S_ice)>> }
ConfirmationArgs == {Absent, PyNone, PyStr(S_yes), PyStr(S_no)}
RemoveArgs == {S_Pancakes, <<"c","o","f","f","e","e">>}

----------------------------------------------------------------------------
(* Flow Functions *)

\* the step of a handler that raises: nothing but the call record changes
Raise(fn, exc) ==
  /\ last' = Raised(fn, exc)
  /\ UNCHANGED <<service_cache, order_manager, posts>>

\* the step of a handler that returns (result, next_node)
Return(fn, status, next, data) ==
  last' = Returned(fn, status, next, data)

request_room_number ==
  /\ Return("request_room_number", "None", "request_room", NoData)
  /\ UNCHANGED <<service_cache, order_manager, posts>>

validate_room(room_number_arg, resp) ==
  IF ~HasKey(room_number_arg) THEN Raise("validate_room", "KeyError")
  ELSE IF ~IsStr(room_number_arg) THEN Raise("validate_room", "AttributeError")
  ELSE
    LET room_number == Strip(room_number_arg.v)
        \* validate_room_number(room_number)
        guest_info == IF resp.status = "200" THEN resp.guest ELSE NoGuest
    IN  /\ resp \in GuestResponses(room_number)
        /\ UNCHANGED posts
        /\ IF guest_info.id # NoneId
           THEN /\ service_cache' = [service_cache EXCEPT !.guest_info = guest_info.id]
                /\ order_manager' =
                     [order_manager EXCEPT !.guest_id = guest_info.id,
                                           !.guest_name = PyStr(guest_info.name),
                                           !.room_number = PyStr(room_number)]
                /\ Return("validate_room", "valid", "welcome_guest",
                          [guest_name |-> guest_info.name, room_number |-> room_number])
           ELSE /\ UNCHANGED <<service_cache, order_manager>>
                /\ Return("validate_room", "invalid", "invalid_room",
                          [room_number |-> room_number])

show_categories(fc, fi) ==
  LET cache      == get_categories(service_cache, FALSE, fc, fi)
      categories == cache.categories.v
      active     == SelectSeq(categories, LAMBDA cat : cat.is_active)
  IN  /\ service_cache' = cache
      /\ UNCHANGED <<order_manager, posts>>
      /\ Return("show_categories", "None", "category_selection",
                [categories |-> [i \in 1..Len(active) |-> active[i].name]])

select_category(category_name_arg, fc, fi) ==
  IF ~HasKey(category_name_arg) THEN Raise("select_category", "KeyError")
  ELSE
    LET cache1     == get_categories(service_cache, FALSE, fc, fi)
        cache      == get_menu_items(cache1, FALSE, fc, fi)
        categories == cache.categories.v
        menu_items == cache.menu_items.v
    IN  /\ service_cache' = cache
        /\ IF ~IsStr(category_name_arg)
           THEN /\ last' = Raised("select_category", "AttributeError")
                /\ UNCHANGED <<order_manager, posts>>
           ELSE
             LET category_name_lower == Lower(category_name_arg.v)
                 Match(cat) == \/ Lower(cat.name) = category_name_lower
                               \/ IsSubstr(category_name_lower, Lower(cat.name))
                 c == FirstIndex(categories, Match)
             IN  /\ UNCHANGED <<order_manager, posts>>
                 /\ IF c = 0
                    THEN Return("select_category", "not_found", "category_not_found",
                                [category |-> category_name_arg.v])
                    ELSE Return("select_category", "None", "show_items",
                                [category |-> categories[c].name,
                                 items |-> SelectSeq(menu_items,
                                     LAMBDA item : item.category_id = categories[c].id)])

add_to_order(item_name_arg, quantity_arg, special_notes_arg, fc, fi) ==
  IF ~HasKey(item_name_arg) THEN Raise("add_to_order", "KeyError")
  ELSE
    LET quantity      == Get(quantity_arg, PyInt(1))
        special_notes == Get(special_notes_arg, PyNone)
        cache         == get_menu_items(service_cache, FALSE, fc, fi)
        menu_items    == cache.menu_items.v
    IN  /\ service_cache' = cache
        /\ UNCHANGED posts
        /\ IF ~IsStr(item_name_arg)
           THEN /\ last' = Raised("add_to_order", "AttributeError")
                /\ UNCHANGED order_manager
           ELSE
             LET m == find_menu_item_by_name(item_name_arg.v, menu_items)
             IN  IF m = 0
                 THEN /\ UNCHANGED order_manager
                      /\ Return("add_to_order", "not_found", "item_not_found",
                                [item |-> item_name_arg.v])
                 ELSE
                   LET quantity_int == convert_text_to_number(quantity)
                       om == add_item(order_manager, menu_items[m], quantity_int,
                                      special_notes)
                   IN  /\ Len(order_manager.items) < MaxLines
                       /\ order_manager' = om
                       /\ Return("add_to_order", "added", "item_added",
                                 [item_name |-> menu_items[m].name,
                                  quantity  |-> quantity_int,
                                  price     |-> om.items[Len(om.items)].total_price])

continue_words ==
  { S_yes, <<"y","e","a","h">>, <<"s","u","r","e">>, <<"m","o","r","e">>,
    <<"a","d","d">>, <<"c","o","n","t","i","n","u","e">> }

continue_ordering(response_arg) ==
  IF ~HasKey(response_arg) THEN Raise("continue_ordering", "KeyError")
  ELSE IF ~IsStr(response_arg) THEN Raise("continue_ordering", "AttributeError")
  ELSE
    LET response_lower == Lower(response_arg.v)
    IN  /\ UNCHANGED <<service_cache, order_manager, posts>>
        /\ IF \E word \in continue_words : IsSubstr(word, response_lower)
           THEN Return("continue_ordering", "None", "category_selection", NoData)
           ELSE Return("continue_ordering", "None", "request_special", NoData)

no_phrases == {S_no, S_none, S_nothing}

set_special_requests(requests_arg, notes_arg) ==
  LET requests == Get(requests_arg, PyNone)
      notes    == Get(notes_arg, PyNone)
      Given(x) == Truthy(x) /\ Lower(x.v) \notin no_phrases
  IN  /\ order_manager' =
           [order_manager EXCEPT
              !.special_requests = IF Given(requests) THEN requests ELSE @,
              !.delivery_notes   = IF Given(notes) THEN notes ELSE @]
      /\ UNCHANGED <<service_cache, posts>>
      /\ Return("set_special_requests", "None", "confirm_order", NoData)

negative_confirmations == {S_no, S_cancel, S_stop, S_negative}

\* create_order_api returned None
NoOrder == [id |-> NoneId, total_amount |-> 0, attempts |-> 1]

\* the total the Order Service computes for the lines it is sent
RECURSIVE ServiceTotal(_)
ServiceTotal(items) ==
  IF items = <<>> THEN 0
  ELSE items[1].unit_price * items[1].quantity + ServiceTotal(Tail(items))

\* create_order_api: the statuses of `response.status in [200, 201]`
AcceptedStatuses == {"200", "201"}

\* the statuses of the success class
SuccessStatuses == {"200", "201", "202"}

\* create_order_api with a second POST after a failed one
create_order_api_retry(om, outcome) ==
  IF outcome \in AcceptedStatuses
  THEN [id |-> "order1", total_amount |-> ServiceTotal(om.items), attempts |-> 1]
  ELSE [NoOrder EXCEPT !.attempts = 2]

\* create_order_api, given the outcome of its POST: the order the Order
\* Service created (NoOrder when the function returns None) and the POSTs
\* the call issued
create_order_api(om, outcome) ==
  IF outcome \in AcceptedStatuses
  THEN [id |-> "order1", total_amount |-> ServiceTotal(om.items), attempts |-> 1]
  ELSE NoOrder

\* the outcomes the Order Service can give for this order: it answers 400
\* for a guest it does not know
PostOutcomesFor(om) ==
  IF om.guest_id = NoneId THEN PostOutcomes \ SuccessStatuses ELSE PostOutcomes

\* place_order refusing on every confirmation that begins with a refusal
is_negative_startswith(confirmation) ==
  \E n \in negative_confirmations :
     /\ Len(confirmation) >= Len(n)
     /\ SubSeq(confirmation, 1, Len(n)) = n

\* place_order: the confirmation is one of the refusals
is_negative(confirmation) == confirmation \in negative_confirmations

\* place_order testing for fewer than no items
is_empty_negative_len(om) == Len(om.items) < 0

\* place_order: the order has no items
is_empty(om) == om.items = <<>>

\* place_order asking for the confirmation again after a failed submission
node_after_submit_reconfirm(order) ==
  IF order.id # NoneId THEN "order_complete" ELSE "confirm_order"

\* place_order: the node after the call to the Order Service
node_after_submit(order) ==
  IF order.id # NoneId THEN "order_complete" ELSE "order_failed"

place_order(confirmation_arg, outcome) ==
  LET confirmation_raw == Get(confirmation_arg, PyStr(<<>>))
  IN  IF ~IsStr(confirmation_raw) THEN Raise("place_order", "AttributeError")
      ELSE
        LET confirmation == Lower(confirmation_raw.v)
        IN  IF is_negative(confirmation)
            THEN /\ UNCHANGED <<service_cache, order_manager, posts>>
                 /\ Return("place_order", "cancelled", "start", NoData)
            ELSE IF is_empty(order_manager)
            THEN /\ UNCHANGED <<service_cache, order_manager, posts>>
                 /\ Return("place_order", "empty", "empty_order", NoData)
            ELSE
              LET order == create_order_api(order_manager, outcome)
              IN  /\ posts < MaxPosts
                  /\ outcome \in PostOutcomes
                  /\ posts' = posts + order.attempts
                  /\ UNCHANGED service_cache
                  /\ IF order.id # NoneId
                     THEN /\ order_manager' = [order_manager EXCEPT !.order_id = order.id]
                          /\ Return("place_order", "success", node_after_submit(order),
                                    [order_id |-> order.id,
                                     total_amount |-> order.total_amount])
                     ELSE /\ UNCHANGED order_manager
                          /\ Return("place_order", "failed", node_after_submit(order),
                                    NoData)

end_call ==
  /\ Return("end_call", "None", "goodbye", NoData)
  /\ UNCHANGED <<service_cache, order_manager, posts>>

----------------------------------------------------------------------------
(* Direct calls of the module's objects, as backend/test_functions.py makes *)

\* order_manager.reset()
call_reset ==
  /\ order_manager' = reset
  /\ last' = Returned("reset", "None", "none", NoData)
  /\ UNCHANGED <<service_cache, posts>>

\* order_manager.add_item(menu_item, quantity, special_notes)
call_add_item(menu_item, quantity, special_notes) ==
  /\ Len(order_manager.items) < MaxLines
  /\ order_manager' = add_item(order_manager, menu_item, quantity, special_notes)
  /\ last' = Returned("add_item", "None", "none", NoData)
  /\ UNCHANGED <<service_cache, posts>>

\* order_manager.remove_item(item_name)
call_remove_item(item_name) ==
  /\ removes < MaxRemoves
  /\ removes' = removes + 1
  /\ order_manager' = remove_item(order_manager, item_name)
  /\ last' = Returned("remove_item",
                      IF remove_index(order_manager, item_name) # 0
                      THEN "True" ELSE "False",
                      "none", NoData)
  /\ UNCHANGED <<service_cache, posts>>

\* service_cache.refresh_menu_data()
call_refresh_menu_data(fc, fi) ==
  /\ service_cache' = refresh_menu_data(service_cache, fc, fi)
  /\ last' = Returned("refresh_menu_data", "None", "none", NoData)
  /\ UNCHANGED <<order_manager, posts>>

----------------------------------------------------------------------------
(* The handlers called directly, in any order *)

\* the outcomes of the fetches of a call that refreshes the cache only when
\* `refreshes` holds
Fetches(refreshes) == IF refreshes THEN FetchOutcomes ELSE {"200"}
NoCategories == service_cache.categories.k = "none"
NoMenuItems == service_cache.menu_items.k = "none"

call_request_room_number == request_room_number
call_validate_room ==
  \E a \in RoomArgs : \E resp \in GuestResponses(Strip(a.v)) : validate_room(a, resp)
call_show_categories ==
  \E fc, fi \in Fetches(NoCategories) : show_categories(fc, fi)
call_select_category ==
  \E a \in CategoryArgs : \E fc, fi \in Fetches(NoCategories \/ NoMenuItems) :
     select_category(a, fc, fi)
call_add_to_order ==
  \E a \in AddToOrderArgs : \E fc, fi \in Fetches(NoMenuItems) :
     add_to_order(a[1], a[2], a[3], fc, fi)
call_continue_ordering == \E a \in ResponseArgs : continue_ordering(a)
call_set_special_requests == \E a \in SpecialArgs : set_special_requests(a[1], a[2])
call_place_order ==
  \E a \in ConfirmationArgs : \E outcome \in PostOutcomesFor(order_manager) :
     place_order(a, outcome)
call_end_call == end_call

\* a direct call leaves the session where it is
Direct == UNCHANGED <<node, removes, others>>

direct_request_room_number == call_request_room_number /\ Direct
direct_validate_room == call_validate_room /\ Direct
direct_show_categories == call_show_categories /\ Direct
direct_select_category == call_select_category /\ Direct
direct_add_to_order == call_add_to_order /\ Direct
direct_continue_ordering == call_continue_ordering /\ Direct
direct_set_special_requests == call_set_special_requests /\ Direct
direct_place_order == call_place_order /\ Direct
direct_end_call == call_end_call /\ Direct
direct_reset == call_reset /\ Direct
direct_refresh_menu_data ==
  (\E fc, fi \in FetchOutcomes : call_refresh_menu_data(fc, fi)) /\ Direct

Next ==
  \/ direct_request_room_number
  \/ direct_validate_room
  \/ direct_show_categories
  \/ direct_select_category
  \/ direct_add_to_order
  \/ direct_continue_ordering
  \/ direct_set_special_requests
  \/ direct_place_order
  \/ direct_end_call
  \/ direct_reset
  \/ direct_refresh_menu_data

Spec == Init /\ [][Next]_vars

----------------------------------------------------------------------------
(* A session driven by the flow: main() pre-loads the menu data, and each   *)
(* turn calls one function of the current node and moves to the node the    *)
(* handler returns                                                          *)

FlowInit ==
  /\ \E fc, fi \in FetchOutcomes :
        service_cache = refresh_menu_data(ServiceCacheInit, fc, fi)
  /\ order_manager = reset
  /\ node = initial_node
  /\ last = Returned("init", "none", initial_node, NoData)
  /\ posts = 0
  /\ removes = 0
  /\ util = NoCall
  /\ tasks = NoTasks
  /\ fetches = NoFetches
  /\ sessions = NoSessions
  /\ db = NoDb
  /\ voice = NoVoiceCall
  /\ submission = NoSubmission
  /\ calls = NoCalls
  /\ graph = NoGraph

\* the current node offers the function
Offered(fn) == fn \in Functions(node)

\* the transition of the session after the handler has run
Transition ==
  /\ node' = IF last'.raised = "none" THEN last'.next ELSE node
  /\ UNCHANGED <<removes, others>>

flow_request_room_number ==
  /\ Offered("request_room_number")
  /\ call_request_room_number
  /\ Transition

flow_validate_room ==
  /\ Offered("validate_room")
  /\ call_validate_room
  /\ Transition

flow_show_categories ==
  /\ Offered("show_categories")
  /\ call_show_categories
  /\ Transition

flow_select_category ==
  /\ Offered("select_category")
  /\ call_select_category
  /\ Transition

flow_add_to_order ==
  /\ Offered("add_to_order")
  /\ call_add_to_order
  /\ Transition

flow_continue_ordering ==
  /\ Offered("continue_ordering")
  /\ call_continue_ordering
  /\ Transition

flow_set_special_requests ==
  /\ Offered("set_special_requests")
  /\ call_set_special_requests
  /\ Transition

flow_place_order ==
  /\ Offered("place_order")
  /\ call_place_order
  /\ Transition

flow_end_call ==
  /\ Offered("end_call")
  /\ call_end_call
  /\ Transition

FlowNext ==
  \/ flow_request_room_number
  \/ flow_validate_room
  \/ flow_show_categories
  \/ flow_select_category
  \/ flow_add_to_order
  \/ flow_continue_ordering
  \/ flow_set_special_requests
  \/ flow_place_order
  \/ flow_end_call

FlowSpec == FlowInit /\ [][FlowNext]_vars

----------------------------------------------------------------------------
(* The OrderManager called directly, in any order *)

\* the quantities add_item is called with
AddItemQuantities == {1, 2, 3}

order_add_item ==
  /\ \E i \in 1..Len(CatalogItems) : \E q \in AddItemQuantities :
        call_add_item(CatalogItems[i], q, PyNone)
  /\ UNCHANGED <<node, removes, others>>

order_remove_item ==
  /\ \E n \in RemoveArgs : call_remove_item(n)
  /\ UNCHANGED <<node, others>>

order_reset == call_reset /\ UNCHANGED <<node, removes, others>>

OrderNext ==
  \/ order_add_item
  \/ order_remove_item
  \/ order_reset

OrderSpec == Init /\ [][OrderNext]_vars

----------------------------------------------------------------------------
(* The utility functions called on their own *)

\* most items of a menu find_menu_item_by_name is given
MaxMenu == 3

S_CaesarSalad == <<"C","a","e","s","a","r"," ","S","a","l","a","d">>
S_GrilledCaesarChickenSalad ==
  <<"G","r","i","l","l","e","d"," ","C","a","e","s","a","r"," ","C","h","i","c","k","e","n"," ","S","a","l","a","d">>
S_CaesarSaladWrap ==
  <<"C","a","e","s","a","r"," ","S","a","l","a","d"," ","W","r","a","p">>

\* the menu items the menus are made of
ResolveItems ==
  { [id |-> "r1", name |-> S_CaesarSalad, price |-> 9, category_id |-> "cat1", is_available |-> TRUE],
    [id |-> "r2", name |-> S_GrilledCaesarChickenSalad, price |-> 12, category_id |-> "cat1", is_available |-> TRUE],
    [id |-> "r3", name |-> S_CaesarSaladWrap, price |-> 8, category_id |-> "cat1", is_available |-> TRUE],
    [id |-> "r4", name |-> S_Pancakes, price |-> 7, category_id |-> "cat1", is_available |-> TRUE] }

\* the menus: the lists of at most MaxMenu different items
Menus ==
  { m \in UNION { [1..k -> ResolveItems] : k \in 0..MaxMenu } :
      \A i, j \in 1..Len(m) : i # j => m[i] # m[j] }

\* the item names find_menu_item_by_name is called with
ItemNameArgs ==
  { <<"c","a","e","s","a","r"," ","s","a","l","a","d">>,
    <<"s","a","l","a","d">>,
    <<"C","h","i","c","k","e","n"," ","S","a","l","a","d">>,
    <<"s","u","s","h","i">>,
    <<"s","a","l","a","d"," ","c","a","e","s","a","r">>,
    <<"g","r","i","l","l","e","d"," ","c","a","e","s","a","r"," ","s","a","l","a","d"," ","p","l","e","a","s","e">> }

\* the values convert_text_to_number is called with
QuantityTexts ==
  { PyStr(<<"z","e","r","o">>), PyStr(<<"0">>), PyInt(0), PyInt(0 - 2), PyNone,
    PyStr(S_two), PyStr(<<"t","w","e","n","t","y","-","o","n","e">>), PyStr(<<"a">>), PyStr(<<"3">>),
    PyStr(<<"x","y","z">>), PyInt(3), PyStr(<<" ","Z","e","r","o"," ">>),
    PyStr(<<"h","u","n","d","r","e","d">>), PyStr(<<"o","n","e","-","t","w","o">>),
    PyStr(<<"a","n">>), PyStr(<<"2"," ","c","u","p","s">>) }

\* a call that has not run yet
Pending(fn, menu, text) ==
  [fn |-> fn, state |-> "pending", menu |-> menu, text |-> text, result |-> 0]

UtilityInit ==
  /\ service_cache = ServiceCacheInit
  /\ order_manager = reset
  /\ node = initial_node
  /\ last = Returned("init", "none", initial_node, NoData)
  /\ posts = 0
  /\ removes = 0
  /\ tasks = NoTasks
  /\ fetches = NoFetches
  /\ sessions = NoSessions
  /\ db = NoDb
  /\ voice = NoVoiceCall
  /\ submission = NoSubmission
  /\ calls = NoCalls
  /\ graph = NoGraph
  /\ \/ \E m \in Menus : \E t \in ItemNameArgs :
          util = Pending("find_menu_item_by_name", m, PyStr(t))
     \/ \E t \in QuantityTexts :
          util = Pending("convert_text_to_number", <<>>, t)

\* find_menu_item_by_name(item_name, menu_items)
util_find_menu_item_by_name ==
  /\ util.fn = "find_menu_item_by_name"
  /\ util.state = "pending"
  /\ util' = [util EXCEPT !.state = "done",
                          !.result = find_menu_item_by_name(util.text.v, util.menu)]
  /\ UNCHANGED <<service_cache, order_manager, node, last, posts, removes,
                 tasks, fetches, sessions, db, voice, submission, calls, graph>>

\* convert_text_to_number(text)
util_convert_text_to_number ==
  /\ util.fn = "convert_text_to_number"
  /\ util.state = "pending"
  /\ util' = [util EXCEPT !.state = "done",
                          !.result = convert_text_to_number(util.text)]
  /\ UNCHANGED <<service_cache, order_manager, node, last, posts, removes,
                 tasks, fetches, sessions, db, voice, submission, calls, graph>>

UtilityNext ==
  \/ util_find_menu_item_by_name
  \/ util_convert_text_to_number

UtilitySpec == UtilityInit /\ [][UtilityNext]_vars

----------------------------------------------------------------------------
(* add_to_order called with any quantity *)

\* the quantities add_to_order is called with
QuantityArgs ==
  { Absent, PyInt(3), PyInt(0), PyInt(0 - 1), PyStr(<<"2">>), PyStr(<<"0">>),
    PyStr(S_two), PyStr(<<"z","e","r","o">>), PyStr(<<"a"," ","f","e","w">>) }

quantity_add_to_order ==
  /\ \E n \in {S_Pancakes, S_Coffee} : \E q \in QuantityArgs :
       \E fc, fi \in Fetches(NoMenuItems) :
          add_to_order(PyStr(n), q, Absent, fc, fi)
  /\ Direct

quantity_reset == call_reset /\ Direct

QuantityNext ==
  \/ quantity_add_to_order
  \/ quantity_reset

QuantitySpec == Init /\ [][QuantityNext]_vars

----------------------------------------------------------------------------
(* Tasks of one event loop reading the ServiceCache: a task runs until it   *)
(* awaits, and the awaits of refresh_menu_data are its two GETs             *)

\* the tasks
Tasks == {"t1", "t2"}
\* most calls of the cache one task makes
MaxCalls == 2

\* a call of get_categories or get_menu_items, with the GETs for menu items
\* it has issued
Read(fn, force_refresh) == [fn |-> fn, force_refresh |-> force_refresh, fetched |-> 0]
NoRead == Read("none", FALSE)

\* a task that has called nothing yet
IdleTask == [pc |-> "idle", cur |-> NoRead, prev |-> NoRead, done |-> 0]

CacheInit ==
  /\ service_cache = ServiceCacheInit
  /\ order_manager = reset
  /\ node = initial_node
  /\ last = Returned("init", "none", initial_node, NoData)
  /\ posts = 0
  /\ removes = 0
  /\ util = NoCall
  /\ sessions = NoSessions
  /\ db = NoDb
  /\ voice = NoVoiceCall
  /\ submission = NoSubmission
  /\ calls = NoCalls
  /\ graph = NoGraph
  /\ tasks = [t \in Tasks |-> IdleTask]
  /\ fetches = NoFetches

\* the test of get_categories / get_menu_items that leads to a refresh
NeedsRefresh(cache, fn, force_refresh) ==
  \/ force_refresh
  \/ (fn = "get_categories" /\ cache.categories.k = "none")
  \/ (fn = "get_menu_items" /\ cache.menu_items.k = "none")

\* a task calls get_categories or get_menu_items: it returns the cached
\* list at once, or enters refresh_menu_data and awaits the GET for the
\* categories
task_call(t) ==
  /\ tasks[t].pc = "idle"
  /\ tasks[t].done < MaxCalls
  /\ \E fn \in {"get_categories", "get_menu_items"} : \E force_refresh \in BOOLEAN :
       IF NeedsRefresh(service_cache, fn, force_refresh)
       THEN /\ tasks' = [tasks EXCEPT ![t].pc = "categories",
                                      ![t].prev = tasks[t].cur,
                                      ![t].cur = Read(fn, force_refresh)]
            /\ fetches' = [fetches EXCEPT !["categories"] = @ + 1]
       ELSE /\ tasks' = [tasks EXCEPT ![t].prev = tasks[t].cur,
                                      ![t].cur = Read(fn, force_refresh),
                                      ![t].done = @ + 1]
            /\ UNCHANGED fetches
  /\ UNCHANGED <<service_cache, order_manager, node, last, posts, removes,
                 util, sessions, db, voice, submission, calls, graph>>

\* the GET for the categories answers: the task assigns self.categories and
\* awaits the GET for the menu items
task_categories(t) ==
  /\ tasks[t].pc = "categories"
  /\ \E fc \in FetchOutcomes : service_cache' = refresh_categories(service_cache, fc)
  /\ tasks' = [tasks EXCEPT ![t].pc = "menu_items", ![t].cur.fetched = @ + 1]
  /\ fetches' = [fetches EXCEPT !["menu_items"] = @ + 1]
  /\ UNCHANGED <<order_manager, node, last, posts, removes, util, sessions, db, voice, submission, calls, graph>>

\* the GET for the menu items answers: the task assigns self.menu_items and
\* the call returns
task_menu_items(t) ==
  /\ tasks[t].pc = "menu_items"
  /\ \E fi \in FetchOutcomes : service_cache' = refresh_menu_items(service_cache, fi)
  /\ tasks' = [tasks EXCEPT ![t].pc = "idle", ![t].done = @ + 1]
  /\ UNCHANGED <<fetches, order_manager, node, last, posts, removes, util, sessions, db, voice, submission, calls, graph>>

cache_call == \E t \in Tasks : task_call(t)
cache_categories == \E t \in Tasks : task_categories(t)
cache_menu_items == \E t \in Tasks : task_menu_items(t)

CacheNext ==
  \/ cache_call
  \/ cache_categories
  \/ cache_menu_items

CacheSpec == CacheInit /\ [][CacheNext]_vars

----------------------------------------------------------------------------
(* Voice sessions: start_voice_call starts hotel_room_service_tavus.py as a *)
(* process of its own for each session, and main() runs the session in it   *)

\* the sessions
Sessions == {"s1", "s2"}

\* what the guest of each session says: the room, and the item ordered
SessionRoom == [s1 |-> S_101, s2 |-> S_102]
SessionItem == [s1 |-> S_Pancakes, s2 |-> S_Coffee]

\* every session in one process
process_of_shared(s) == "s1"

\* start_voice_call: the process subprocess.Popen starts for the session
process_of(s) == s

\* a session that has not been started
NewSession == [phase |-> "new", node |-> "none", how |-> "none"]

\* main, finally, leaving the order as it is
finally_cleanup_skip(om) == om

\* main, finally: order_manager.reset()
finally_cleanup(om) == reset

\* the order_manager of the session's process
OrderOf(s) == sessions.memory[process_of(s)]

SessionsInit ==
  /\ service_cache = ServiceCacheInit
  /\ order_manager = reset
  /\ node = initial_node
  /\ last = Returned("init", "none", initial_node, NoData)
  /\ posts = 0
  /\ removes = 0
  /\ util = NoCall
  /\ tasks = NoTasks
  /\ fetches = NoFetches
  /\ db = NoDb
  /\ voice = NoVoiceCall
  /\ submission = NoSubmission
  /\ calls = NoCalls
  /\ graph = NoGraph
  /\ sessions = [proc   |-> [s \in Sessions |-> NewSession],
                 memory |-> [p \in Sessions |-> reset]]

\* the session's own variables are all a step of a session changes
SessionFrame ==
  UNCHANGED <<service_cache, order_manager, node, last, posts, removes,
              util, tasks, fetches, db, voice, submission, calls, graph>>

\* start_voice_call: the module is loaded in the new process
\* (order_manager = OrderManager()) and main() builds the flow
start_voice_call(s) ==
  /\ sessions.proc[s].phase = "new"
  /\ sessions' = [sessions EXCEPT
                    !.proc[s] = [phase |-> "running", node |-> initial_node,
                                 how |-> "none"],
                    !.memory[process_of(s)] = reset]
  /\ SessionFrame

\* the handler of the function fn run on the order om, for what the guest of
\* the session says: the order after the call and the next node
session_call(s, fn, om, outcome) ==
  CASE fn = "request_room_number" -> [om |-> om, next |-> "request_room"]
    [] fn = "validate_room" ->
         LET room_number == Strip(SessionRoom[s])
             guest_info  == CHOOSE g \in GuestDB : g.room_number = room_number
         IN  [om   |-> [om EXCEPT !.guest_id = guest_info.id,
                                  !.guest_name = PyStr(guest_info.name),
                                  !.room_number = PyStr(room_number)],
              next |-> "welcome_guest"]
    [] fn = "show_categories" -> [om |-> om, next |-> "category_selection"]
    [] fn = "select_category" -> [om |-> om, next |-> "show_items"]
    [] fn = "add_to_order" ->
         LET m == find_menu_item_by_name(SessionItem[s], CatalogItems)
         IN  [om   |-> add_item(om, CatalogItems[m],
                                convert_text_to_number(PyStr(S_two)), PyNone),
              next |-> "item_added"]
    [] fn = "continue_ordering" -> [om |-> om, next |-> "request_special"]
    [] fn = "set_special_requests" ->
         [om |-> [om EXCEPT !.special_requests = PyStr(S_ice)],
          next |-> "confirm_order"]
    [] fn = "place_order" ->
         LET order == create_order_api(om, outcome)
         IN  [om   |-> IF order.id # NoneId
                       THEN [om EXCEPT !.order_id = order.id] ELSE om,
              next |-> node_after_submit(order)]
    [] fn = "end_call" -> [om |-> om, next |-> "goodbye"]

\* one turn of a running session: a function of its node is called
session_turn(s) ==
  /\ sessions.proc[s].phase = "running"
  /\ \E fn \in Functions(sessions.proc[s].node) : \E outcome \in {"201", "500"} :
       LET r == session_call(s, fn, OrderOf(s), outcome)
       IN  sessions' = [sessions EXCEPT !.proc[s].node = r.next,
                                        !.memory[process_of(s)] = r.om]
  /\ SessionFrame

\* the session leaves runner.run(task)
LeaveRun(s, how) ==
  /\ sessions.proc[s].phase = "running"
  /\ sessions' = [sessions EXCEPT !.proc[s].phase = "ending", !.proc[s].how = how]
  /\ SessionFrame

\* the goodbye node's post action end_conversation ends the pipeline
end_conversation(s) == sessions.proc[s].node = "goodbye" /\ LeaveRun(s, "goodbye")

\* on_participant_left: task.cancel()
on_participant_left(s) == LeaveRun(s, "cancelled")

\* an exception leaves the pipeline: except Exception ... raise
pipeline_error(s) == LeaveRun(s, "error")

\* main, finally: the order manager is reset and the session is completed
session_finally(s) ==
  /\ sessions.proc[s].phase = "ending"
  /\ sessions' = [sessions EXCEPT
                    !.proc[s].phase = "completed",
                    !.memory[process_of(s)] = finally_cleanup(OrderOf(s))]
  /\ SessionFrame

sessions_start_voice_call == \E s \in Sessions : start_voice_call(s)
sessions_turn == \E s \in Sessions : session_turn(s)
sessions_end_conversation == \E s \in Sessions : end_conversation(s)
sessions_on_participant_left == \E s \in Sessions : on_participant_left(s)
sessions_pipeline_error == \E s \in Sessions : pipeline_error(s)
sessions_finally == \E s \in Sessions : session_finally(s)

SessionsNext ==
  \/ sessions_start_voice_call
  \/ sessions_turn
  \/ sessions_end_conversation
  \/ sessions_on_participant_left
  \/ sessions_pipeline_error
  \/ sessions_finally

SessionsSpec == SessionsInit /\ [][SessionsNext]_vars

----------------------------------------------------------------------------
(* The transition relation of the flow *)

\* the node names the return statements of each handler give
handler_returns ==
  [request_room_number  |-> {"request_room"},
   validate_room        |-> {"welcome_guest", "invalid_room"},
   show_categories      |-> {"category_selection"},
   select_category      |-> {"category_not_found", "show_items"},
   add_to_order         |-> {"item_not_found", "item_added"},
   continue_ordering    |-> {"category_selection", "request_special"},
   set_special_requests |-> {"confirm_order"},
   place_order          |-> {"start", "empty_order", "order_complete", "order_failed"},
   end_call             |-> {"goodbye"}]

\* the edges of the flow: from a node, by a function the node offers, to a
\* node name the function's handler returns
FlowEdges ==
  {e \in Nodes \X (Nodes \cup {"start"}) :
     \E f \in Functions(e[1]) : e[2] \in handler_returns[f]}

\* the nodes reached from the nodes S along one edge or more
RECURSIVE ReachedFrom(_, _)
ReachedFrom(S, seen) ==
  LET next == {e[2] : e \in {d \in FlowEdges : d[1] \in S}} \ seen
  IN  IF next = {} THEN seen ELSE ReachedFrom(next, seen \cup next)

----------------------------------------------------------------------------
(* The Order Service: POST /api/v1/orders/ *)

\* most lines of one request
MaxRequestLines == 2

\* the ids the Order Service gives its orders, in the order it creates them
OrderIds == <<"order1", "order2", "order3">>

\* the lines a request is made of: OrderItemCreate
RequestLines ==
  { [menu_item_id |-> "item1", quantity |-> 2, special_notes |-> PyNone],
    [menu_item_id |-> "item1", quantity |-> 1, special_notes |-> PyStr(S_ice)],
    [menu_item_id |-> "item2", quantity |-> 3, special_notes |-> PyNone],
    [menu_item_id |-> "item3", quantity |-> 1, special_notes |-> PyNone],
    [menu_item_id |-> "item9", quantity |-> 1, special_notes |-> PyNone] }

\* the requests: OrderCreate
OrderRequests ==
  [guest_id         : {"guest1", "guest2", "nonexistent"},
   order_items      : UNION {[1..k -> RequestLines] : k \in 0..MaxRequestLines},
   special_requests : {PyNone, PyStr(S_ice)},
   delivery_notes   : {PyNone}]

\* db.query(GuestModel).filter(GuestModel.id == order.guest_id).first()
guest_exists(guest_id) == \E g \in GuestDB : g.id = guest_id

\* db.query(MenuItemModel).filter(MenuItemModel.id == ...).first(): the place
\* of the menu item in MenuItemDB, 0 when there is none
menu_item_query(menu_item_id) ==
  IF \E i \in 1..Len(MenuItemDB) : MenuItemDB[i].id = menu_item_id
  THEN CHOOSE i \in 1..Len(MenuItemDB) : MenuItemDB[i].id = menu_item_id
  ELSE 0

\* the test passing for every menu item
is_available_any(menu_item) == TRUE

\* create_order: `if not menu_item.is_available` does not raise
is_available(menu_item) == menu_item.is_available

\* the line total without the quantity
line_total_price_unit(unit_price, quantity) == unit_price

\* create_order: total_price = unit_price * item_data.quantity
line_total_price(unit_price, quantity) == unit_price * quantity

\* create_order, the loop over order.order_items: the detail of the
\* HTTPException it raises ("none" when it ends), the total and the
\* order_items_data it has built
RECURSIVE order_items_loop(_, _, _)
order_items_loop(order_items, total_amount, order_items_data) ==
  IF order_items = <<>>
  THEN [detail |-> "none", total_amount |-> total_amount,
        order_items_data |-> order_items_data]
  ELSE LET item_data == Head(order_items)
           m         == menu_item_query(item_data.menu_item_id)
       IN  IF m = 0
           THEN [detail |-> "Menu item not found", total_amount |-> 0,
                 order_items_data |-> <<>>]
           ELSE IF ~is_available(MenuItemDB[m])
           THEN [detail |-> "Menu item is not available", total_amount |-> 0,
                 order_items_data |-> <<>>]
           ELSE LET unit_price  == MenuItemDB[m].price
                    total_price == line_total_price(unit_price, item_data.quantity)
                IN  order_items_loop(
                      Tail(order_items),
                      total_amount + total_price,
                      Append(order_items_data,
                             [menu_item_id  |-> item_data.menu_item_id,
                              quantity      |-> item_data.quantity,
                              unit_price    |-> unit_price,
                              total_price   |-> total_price,
                              special_notes |-> item_data.special_notes]))

\* the response that carries an HTTPException of status 400
BadRequest(detail) ==
  [status |-> "400", detail |-> detail, order_id |-> NoneId, total_amount |-> 0]

\* create_order(order, db): the database and the response after the call
create_order(d, order) ==
  IF ~guest_exists(order.guest_id)
  THEN [d EXCEPT !.request = order, !.response = BadRequest("Guest not found")]
  ELSE
    LET r == order_items_loop(order.order_items, 0, <<>>)
    IN  IF r.detail # "none"
        THEN [d EXCEPT !.request = order, !.response = BadRequest(r.detail)]
        ELSE
          LET id       == OrderIds[Len(d.orders) + 1]
              db_order == [id               |-> id,
                           guest_id         |-> order.guest_id,
                           total_amount     |-> r.total_amount,
                           special_requests |-> order.special_requests,
                           delivery_notes   |-> order.delivery_notes]
              db_order_items ==
                [i \in 1..Len(r.order_items_data) |->
                   [order_id      |-> id,
                    menu_item_id  |-> r.order_items_data[i].menu_item_id,
                    quantity      |-> r.order_items_data[i].quantity,
                    unit_price    |-> r.order_items_data[i].unit_price,
                    total_price   |-> r.order_items_data[i].total_price,
                    special_notes |-> r.order_items_data[i].special_notes]]
          IN  [orders      |-> Append(d.orders, db_order),
               order_items |-> d.order_items \o db_order_items,
               request     |-> order,
               response    |-> [status |-> "201", detail |-> "none", order_id |-> id,
                                total_amount |-> r.total_amount]]

\* the database before the call: empty, or holding an earlier order
EarlierRequest ==
  [guest_id |-> "guest2",
   order_items |-> <<[menu_item_id |-> "item2", quantity |-> 1, special_notes |-> PyNone]>>,
   special_requests |-> PyNone, delivery_notes |-> PyNone]
Databases == {NoDb, create_order(NoDb, EarlierRequest)}

ServiceInit ==
  /\ service_cache = ServiceCacheInit
  /\ order_manager = reset
  /\ node = initial_node
  /\ last = Returned("init", "none", initial_node, NoData)
  /\ posts = 0
  /\ removes = 0
  /\ util = NoCall
  /\ tasks = NoTasks
  /\ fetches = NoFetches
  /\ sessions = NoSessions
  /\ voice = NoVoiceCall
  /\ submission = NoSubmission
  /\ calls = NoCalls
  /\ graph = NoGraph
  /\ \E d \in Databases : \E order \in OrderRequests :
        db = [d EXCEPT !.request = order, !.response = NoResponse]

\* POST /api/v1/orders/ with the request that waits
service_create_order ==
  /\ db.response = NoResponse
  /\ db' = create_order(db, db.request)
  /\ UNCHANGED <<service_cache, order_manager, node, last, posts, removes,
                 util, tasks, fetches, sessions, voice, submission, calls, graph>>

ServiceNext == service_create_order

ServiceSpec == ServiceInit /\ [][ServiceNext]_vars

----------------------------------------------------------------------------
(* OrderService.create_order_from_voice *)

\* most items of one call
MaxVoiceItems == 2

\* the outcomes of _get_or_create_guest: the guest is found by room, is
\* created, is found by email after a failed creation, or none of these
GuestOutcomes == {"found", "created", "by_email", "failed"}

\* the outcomes of the GET of the menu in _find_menu_item_id
MenuOutcomes == {"200", "500", "exception"}

\* the spoken items, each with the outcome of the GET made for it
VoiceItems ==
  [name : {S_Coffee, <<"p","a","n">>, <<"N","o","n","E","x","i","s","t","e","n","t","I","t","e","m">>},
   menu : MenuOutcomes]

\* the calls: the outcome of the guest lookup, the items and the outcome of
\* the POST to the orders endpoint
VoiceCalls ==
  [guest : GuestOutcomes,
   items : UNION {[1..k -> VoiceItems] : k \in 0..MaxVoiceItems},
   post  : PostOutcomes]

\* _find_menu_item_id: the id of the menu item, NoneId for None, "raise" when
\* the GET raises
find_menu_item_id(item_name, menu) ==
  LET Exact(i)   == Lower(MenuItemDB[i].name) = Lower(item_name)
      Partial(i) == IsSubstr(Lower(item_name), Lower(MenuItemDB[i].name))
      First(S)   == CHOOSE i \in S : \A j \in S : i <= j
      exact      == {i \in 1..Len(MenuItemDB) : Exact(i)}
      partial    == {i \in 1..Len(MenuItemDB) : Partial(i)}
  IN  IF menu = "exception" THEN "raise"
      ELSE IF menu # "200" THEN NoneId
      ELSE IF exact # {} THEN MenuItemDB[First(exact)].id
      ELSE IF partial # {} THEN MenuItemDB[First(partial)].id
      ELSE NoneId

\* the loop over items: the order_items built, or the exception of a lookup
RECURSIVE voice_order_items(_, _)
voice_order_items(items, order_items) ==
  IF items = <<>> THEN [raised |-> "none", order_items |-> order_items]
  ELSE LET menu_item_id == find_menu_item_id(Head(items).name, Head(items).menu)
       IN  IF menu_item_id = "raise"
           THEN [raised |-> "ClientError", order_items |-> <<>>]
           ELSE voice_order_items(
                  Tail(items),
                  IF menu_item_id # NoneId
                  THEN Append(order_items, menu_item_id) ELSE order_items)

\* what a call ends with: the exception it raises ("none" when it returns),
\* the POSTs it issued to the orders endpoint and the id of the order returned
VoiceResult(raised, posts_issued, order_id) ==
  [raised |-> raised, posts |-> posts_issued, order_id |-> order_id]

\* create_order_from_voice posting again after a failed POST
create_order_from_voice_retry(call) ==
  IF call.guest = "failed" THEN VoiceResult("Failed to create guest", 0, NoneId)
  ELSE
    LET r == voice_order_items(call.items, <<>>)
    IN  IF r.raised # "none" THEN VoiceResult(r.raised, 0, NoneId)
        ELSE IF r.order_items = <<>> THEN VoiceResult("ValueError", 0, NoneId)
        ELSE IF call.post = "exception" THEN VoiceResult("ClientError", 1, NoneId)
        ELSE IF call.post = "201" THEN VoiceResult("none", 1, "order1")
        ELSE VoiceResult("Order creation failed", 2, NoneId)

\* create_order_from_voice(room_number, guest_name, items, special_requests)
create_order_from_voice(call) ==
  IF call.guest = "failed" THEN VoiceResult("Failed to create guest", 0, NoneId)
  ELSE
    LET r == voice_order_items(call.items, <<>>)
    IN  IF r.raised # "none" THEN VoiceResult(r.raised, 0, NoneId)
        ELSE IF r.order_items = <<>> THEN VoiceResult("ValueError", 0, NoneId)
        ELSE IF call.post = "exception" THEN VoiceResult("ClientError", 1, NoneId)
        ELSE IF call.post = "201" THEN VoiceResult("none", 1, "order1")
        ELSE VoiceResult("Order creation failed", 1, NoneId)

VoiceInit ==
  /\ service_cache = ServiceCacheInit
  /\ order_manager = reset
  /\ node = initial_node
  /\ last = Returned("init", "none", initial_node, NoData)
  /\ posts = 0
  /\ removes = 0
  /\ util = NoCall
  /\ tasks = NoTasks
  /\ fetches = NoFetches
  /\ sessions = NoSessions
  /\ db = NoDb
  /\ submission = NoSubmission
  /\ calls = NoCalls
  /\ graph = NoGraph
  /\ \E call \in VoiceCalls :
        voice = [state |-> "pending", call |-> call,
                 result |-> VoiceResult("none", 0, NoneId)]

\* the call of create_order_from_voice runs
voice_create_order_from_voice ==
  /\ voice.state = "pending"
  /\ voice' = [voice EXCEPT !.state = "done",
                            !.result = create_order_from_voice(voice.call)]
  /\ UNCHANGED <<service_cache, order_manager, node, last, posts, removes,
                 util, tasks, fetches, sessions, db, submission, calls, graph>>

VoiceNext == voice_create_order_from_voice

VoiceSpec == VoiceInit /\ [][VoiceNext]_vars

----------------------------------------------------------------------------
(* A submission in flight: place_order awaits the Order Service while the *)
(* session may be ended                                                   *)

\* the orders a session brings to confirm_order: the guest of room 101 with
\* one line or two
ConfirmedGuest ==
  [reset EXCEPT !.guest_id = "guest1", !.guest_name = PyStr(S_Jane),
                !.room_number = PyStr(S_101)]
OrdersToConfirm ==
  LET Lines == {<<i, q>> : i \in 1..Len(CatalogItems), q \in {1, 2}}
      One(om, l) == add_item(om, CatalogItems[l[1]], l[2], PyNone)
  IN  {One(ConfirmedGuest, l) : l \in Lines}
        \cup {One(One(ConfirmedGuest, l), k) : l \in Lines, k \in Lines}

\* create_order_api: order_data, the body of the POST
order_data(om) ==
  [guest_id         |-> om.guest_id,
   order_items      |-> [i \in 1..Len(om.items) |->
                           [menu_item_id  |-> om.items[i].menu_item_id,
                            quantity      |-> om.items[i].quantity,
                            special_notes |-> om.items[i].special_notes]],
   special_requests |-> IF Truthy(om.special_requests) THEN om.special_requests ELSE PyNone,
   delivery_notes   |-> IF Truthy(om.delivery_notes) THEN om.delivery_notes ELSE PyNone]

\* the session: where main() is, where place_order is, what is on the wire,
\* the order id place_order received, and whether the session was ended
\* while place_order awaited the response
RunningSession ==
  [phase |-> "running", pc |-> "idle", net |-> "none", received |-> NoneId,
   cut |-> FALSE]

SubmitInit ==
  /\ service_cache = ServiceCacheInit
  /\ order_manager \in OrdersToConfirm
  /\ node = "confirm_order"
  /\ last = Returned("set_special_requests", "None", "confirm_order", NoData)
  /\ posts = 0
  /\ removes = 0
  /\ util = NoCall
  /\ tasks = NoTasks
  /\ fetches = NoFetches
  /\ sessions = NoSessions
  /\ voice = NoVoiceCall
  /\ db \in Databases
  /\ submission = RunningSession
  /\ calls = NoCalls
  /\ graph = NoGraph

SubmitFrame == UNCHANGED <<service_cache, removes, util, tasks, fetches, sessions, voice, calls, graph>>

\* place_order({'confirmation': 'yes'}) up to the await of session.post
submit_post ==
  /\ submission.phase = "running"
  /\ submission.pc = "idle"
  /\ "place_order" \in Functions(node)
  /\ ~is_empty(order_manager)
  /\ posts' = posts + 1
  /\ db' = [db EXCEPT !.request = order_data(order_manager), !.response = NoResponse]
  /\ submission' = [submission EXCEPT !.pc = "awaiting", !.net = "request"]
  /\ UNCHANGED <<order_manager, node, last>>
  /\ SubmitFrame

\* the Order Service receives the POST and runs create_order
submit_create_order ==
  /\ submission.net = "request"
  /\ db' = create_order(db, db.request)
  /\ submission' = [submission EXCEPT !.net = "response"]
  /\ UNCHANGED <<order_manager, node, last, posts>>
  /\ SubmitFrame

\* the response arrives and place_order goes on to its return
submit_response ==
  /\ submission.phase = "running"
  /\ submission.pc = "awaiting"
  /\ submission.net = "response"
  /\ LET order == IF db.response.status \in AcceptedStatuses
                  THEN [id |-> db.response.order_id,
                        total_amount |-> db.response.total_amount, attempts |-> 1]
                  ELSE NoOrder
     IN  /\ order_manager' = IF order.id # NoneId
                             THEN [order_manager EXCEPT !.order_id = order.id]
                             ELSE order_manager
         /\ node' = node_after_submit(order)
         /\ last' = Returned("place_order",
                             IF order.id # NoneId THEN "success" ELSE "failed",
                             node_after_submit(order), NoData)
         /\ submission' = [submission EXCEPT !.pc = "returned", !.net = "none",
                                             !.received = order.id]
  /\ UNCHANGED <<posts, db>>
  /\ SubmitFrame

\* session.post raises: the request, or the response, is lost and
\* create_order_api returns None
submit_post_raises ==
  /\ submission.phase = "running"
  /\ submission.pc = "awaiting"
  /\ node' = node_after_submit(NoOrder)
  /\ last' = Returned("place_order", "failed", node_after_submit(NoOrder), NoData)
  /\ submission' = [submission EXCEPT !.pc = "returned", !.net = "none"]
  /\ UNCHANGED <<order_manager, posts, db>>
  /\ SubmitFrame

\* end_call at order_complete or order_failed
submit_end_call ==
  /\ submission.phase = "running"
  /\ "end_call" \in Functions(node)
  /\ node' = "goodbye"
  /\ last' = Returned("end_call", "None", "goodbye", NoData)
  /\ UNCHANGED <<order_manager, posts, db, submission>>
  /\ SubmitFrame

\* the goodbye node's post action end_conversation ends the pipeline
submit_end_conversation ==
  /\ submission.phase = "running"
  /\ node = "goodbye"
  /\ submission' = [submission EXCEPT !.phase = "ending"]
  /\ UNCHANGED <<order_manager, node, last, posts, db>>
  /\ SubmitFrame

\* on_participant_left: task.cancel(), or end_voice_call terminating the
\* process: the session leaves runner.run(task) wherever place_order is
submit_terminate ==
  /\ submission.phase = "running"
  /\ submission' = [submission EXCEPT
                      !.phase = "ending",
                      !.cut = (submission.pc = "awaiting"),
                      !.pc = IF submission.pc = "awaiting" THEN "cancelled" ELSE @]
  /\ UNCHANGED <<order_manager, node, last, posts, db>>
  /\ SubmitFrame

\* main, finally: order_manager.reset()
submit_finally ==
  /\ submission.phase = "ending"
  /\ order_manager' = finally_cleanup(order_manager)
  /\ submission' = [submission EXCEPT !.phase = "completed"]
  /\ UNCHANGED <<node, last, posts, db>>
  /\ SubmitFrame

SubmitNext ==
  \/ submit_post
  \/ submit_create_order
  \/ submit_response
  \/ submit_post_raises
  \/ submit_end_call
  \/ submit_end_conversation
  \/ submit_terminate
  \/ submit_finally

SubmitSpec == SubmitInit /\ [][SubmitNext]_vars

-----------------------------------------------------------------------------
(* The voice-call endpoints of the API: start_voice_call spawns the         *)
(* pipeline process of a session, end_voice_call stops it, and             *)
(* cleanup_active_processes stops every registered process when the API    *)
(* process exits (routers/voice_sessions.py).                              *)

\* the number of voice sessions a run starts
MaxVoiceCalls == 2

SessionIds == 1 .. MaxVoiceCalls

\* process.terminate() and process.wait(timeout) followed by process.kill()
\* whatever wait() did:
stop_process_kill_always(exits_in_grace) ==
  IF exits_in_grace
  THEN <<"terminate", "exited", "kill">>
  ELSE <<"terminate", "TimeoutExpired", "kill">>

\* process.terminate(), process.wait(timeout) and, on TimeoutExpired,
\* process.kill(): the events in the order the code produces them
stop_process(exits_in_grace) ==
  IF exits_in_grace
  THEN <<"terminate", "exited">>
  ELSE <<"terminate", "TimeoutExpired", "kill">>

\* the handler that last finished: name, session id and outcome
Finished(fn, id, outcome) == [fn |-> fn, id |-> id, outcome |-> outcome]

\* the API after import: no record, no process, active_voice_processes = {}
ApiStarted ==
  [status  |-> [s \in SessionIds |-> "none"],
   process |-> [s \in SessionIds |-> "none"],
   active_voice_processes |-> {},
   events  |-> [s \in SessionIds |-> <<>>],
   server  |-> "up",
   done    |-> Finished("import", 0, "none")]

CallsInit ==
  /\ service_cache = ServiceCacheInit
  /\ order_manager = reset
  /\ node = initial_node
  /\ last = Returned("init", "none", initial_node, NoData)
  /\ posts = 0
  /\ removes = 0
  /\ util = NoCall
  /\ tasks = NoTasks
  /\ fetches = NoFetches
  /\ sessions = NoSessions
  /\ db = NoDb
  /\ voice = NoVoiceCall
  /\ submission = NoSubmission
  /\ graph = NoGraph
  /\ calls = ApiStarted

CallsFrame ==
  UNCHANGED <<service_cache, order_manager, node, last, posts, removes,
              util, tasks, fetches, sessions, db, voice, submission, graph>>

\* start_voice_call: the record is committed ACTIVE under a new id, then
\* Popen either starts the process, which is registered, or raises, and the
\* record is set to ERROR
api_start_voice_call(s, popen_raises) ==
  /\ calls.server = "up"
  /\ calls.status[s] = "none"
  /\ \A t \in SessionIds : t < s => calls.status[t] # "none"
  /\ calls' =
       IF popen_raises
       THEN [calls EXCEPT !.status[s] = "ERROR",
                          !.done = Finished("start_voice_call", s, "500")]
       ELSE [calls EXCEPT !.status[s] = "ACTIVE",
                          !.process[s] = "running",
                          !.active_voice_processes = @ \cup {s},
                          !.done = Finished("start_voice_call", s, "201")]
  /\ CallsFrame

\* the pipeline process of a session ends by itself
process_exits(s) ==
  /\ calls.process[s] = "running"
  /\ calls' = [calls EXCEPT !.process[s] = "exited",
                            !.events[s] = Append(@, "exited")]
  /\ CallsFrame

\* delete_voice_session: the record is deleted, or 404
delete_voice_session(s) ==
  /\ calls.server = "up"
  /\ calls' =
       IF calls.status[s] \in {"none", "deleted"}
       THEN [calls EXCEPT !.done = Finished("delete_voice_session", s, "404")]
       ELSE [calls EXCEPT !.status[s] = "deleted",
                          !.done = Finished("delete_voice_session", s, "200")]
  /\ CallsFrame

\* the events end_voice_call and cleanup_active_processes add for a process:
\* none unless process.poll() is None
stopped_events(state, exits_in_grace) ==
  IF state = "running" THEN stop_process(exits_in_grace) ELSE <<>>

\* end_voice_call(session_id): the registered process is stopped and its entry
\* deleted, then the record, if there is one, is set to COMPLETED; an
\* exception of db.commit() becomes a 500
end_voice_call(s, exits_in_grace, commit_raises) ==
  /\ calls.server = "up"
  /\ LET registered == s \in calls.active_voice_processes
         has_record == calls.status[s] \notin {"none", "deleted"}
         raises     == has_record /\ commit_raises
     IN calls' =
          [calls EXCEPT
             !.events[s] = IF registered
                           THEN @ \o stopped_events(calls.process[s], exits_in_grace)
                           ELSE @,
             !.process[s] = IF registered /\ @ = "running" THEN "exited" ELSE @,
             !.active_voice_processes = @ \ {s},
             !.status[s] = IF has_record /\ ~raises THEN "COMPLETED" ELSE @,
             !.done = Finished("end_voice_call", s,
                               IF raises THEN "500" ELSE "returned")]
  /\ CallsFrame

\* the registered processes that are still running
running_processes ==
  {s \in calls.active_voice_processes : calls.process[s] = "running"}

\* cleanup_active_processes: every registered process that is still running
\* is stopped, exits_in_grace being those that exit within the wait; the
\* entries stay
cleanup_active_processes(exits_in_grace) ==
  [calls EXCEPT
     !.events = [s \in SessionIds |->
                   IF s \in calls.active_voice_processes
                   THEN @[s] \o stopped_events(calls.process[s], s \in exits_in_grace)
                   ELSE @[s]],
     !.process = [s \in SessionIds |->
                    IF s \in calls.active_voice_processes /\ @[s] = "running"
                    THEN "exited" ELSE @[s]],
     !.done = Finished("cleanup_active_processes", 0, "returned")]

\* signal_handler: SIGTERM or SIGINT runs the cleanup, then sys.exit(0)
signal_handler ==
  /\ calls.server = "up"
  /\ \E g \in SUBSET running_processes :
        calls' = [cleanup_active_processes(g) EXCEPT !.server = "exiting"]
  /\ CallsFrame

\* atexit: the interpreter exits, after sys.exit(0) or on its own, and runs
\* the registered cleanup
atexit_cleanup ==
  /\ calls.server \in {"up", "exiting"}
  /\ \E g \in SUBSET running_processes :
        calls' = [cleanup_active_processes(g) EXCEPT !.server = "down"]
  /\ CallsFrame

CallsNext ==
  \/ \E s \in SessionIds, r \in BOOLEAN : api_start_voice_call(s, r)
  \/ \E s \in SessionIds : process_exits(s)
  \/ \E s \in SessionIds : delete_voice_session(s)
  \/ \E s \in SessionIds, g \in BOOLEAN, r \in BOOLEAN : end_voice_call(s, g, r)
  \/ signal_handler
  \/ atexit_cleanup

CallsSpec == CallsInit /\ [][CallsNext]_vars

-----------------------------------------------------------------------------
(* place_order called with any confirmation *)

\* the confirmations place_order is called with
ConfirmationTexts ==
  {Absent, PyNone, PyStr(<<>>), PyStr(S_yes), PyStr(S_no),
   PyStr(<<"C","a","n","c","e","l">>), PyStr(S_stop), PyStr(S_negative),
   PyStr(<<"n","o"," ","t","h","a","n","k","s">>)}

\* the call of place_order, the confirmation it was given being kept
confirm_place_order ==
  /\ \E a \in ConfirmationTexts : \E outcome \in PostOutcomesFor(order_manager) :
        /\ place_order(a, outcome)
        /\ util' = [NoCall EXCEPT !.fn = "place_order", !.text = a]
  /\ UNCHANGED <<node, removes, tasks, fetches, sessions, db, voice,
                 submission, calls, graph>>

confirm_validate_room == call_validate_room /\ Direct

confirm_add_to_order ==
  /\ \E fc, fi \in Fetches(NoMenuItems) :
        add_to_order(PyStr(S_Pancakes), Absent, Absent, fc, fi)
  /\ Direct

confirm_reset == call_reset /\ Direct

ConfirmNext ==
  \/ confirm_place_order
  \/ confirm_validate_room
  \/ confirm_add_to_order
  \/ confirm_reset

ConfirmSpec == Init /\ [][ConfirmNext]_vars

-----------------------------------------------------------------------------
(* The LangGraph concierge: one turn of process_message walks the graph     *)
(* _build_graph compiles, from guest_validation until an edge leads to END  *)
(* (langgraph_agent.py).                                                    *)

\* the supersteps a walk may take before LangGraph raises
\* GraphRecursionError: the default recursion_limit of ainvoke
recursion_limit == 25

\* a message of the conversation: who wrote it, its content, and whether it
\* carries tool calls
Message(role, content, tool_calls) ==
  [role |-> role, content |-> content, tool_calls |-> tool_calls]

\* what the guest says
UserTexts ==
  { <<"h","e","l","l","o">>,
    <<"m","y"," ","r","o","o","m"," ","i","s"," ","1","0","1">>,
    <<"R","o","o","m"," ","2","0","4","5"," ","p","l","e","a","s","e">>,
    <<"c","a","l","l"," ","1","2","3","4","5">>,
    <<"w","h","a","t"," ","i","s"," ","o","n"," ","t","h","e"," ","m","e","n","u">>,
    <<"i"," ","w","a","n","t"," ","a"," ","p","i","z","z","a">>,
    <<"r","e","m","o","v","e"," ","t","h","e"," ","p","i","z","z","a">>,
    <<"y","e","s">> }

\* what the model answers
LlmTexts ==
  { <<"C","e","r","t","a","i","n","l","y",".">>,
    <<"H","e","r","e"," ","a","r","e"," ","t","h","e"," ","o","p","t","i","o","n","s",".">>,
    <<"P","l","e","a","s","e"," ","c","o","n","f","i","r","m",".">> }

\* the keywords of intent_classification_node
menu_keywords ==
  { <<"m","e","n","u">>,
    <<"f","o","o","d">>,
    <<"p","i","z","z","a">>,
    <<"s","a","n","d","w","i","c","h">>,
    <<"b","e","v","e","r","a","g","e">>,
    <<"w","h","a","t"," ","d","o"," ","y","o","u"," ","h","a","v","e">>,
    <<"o","p","t","i","o","n","s">> }
order_keywords ==
  { <<"o","r","d","e","r">>,
    <<"a","d","d">>,
    <<"w","a","n","t">>,
    <<"g","e","t">>,
    <<"p","l","a","c","e">>,
    <<"b","u","y">> }
modify_keywords ==
  { <<"c","h","a","n","g","e">>,
    <<"r","e","m","o","v","e">>,
    <<"c","a","n","c","e","l">>,
    <<"m","o","d","i","f","y">>,
    <<"u","p","d","a","t","e">>,
    <<"d","e","l","e","t","e">> }
confirm_keywords ==
  { <<"c","o","n","f","i","r","m">>,
    <<"y","e","s">>,
    <<"p","l","a","c","e"," ","o","r","d","e","r">>,
    <<"f","i","n","a","l","i","z","e">>,
    <<"c","h","e","c","k","o","u","t">> }

\* the texts the nodes write
ThankYouPrefix ==
  <<"T","h","a","n","k"," ","y","o","u","!"," ","I","'","v","e"," ","n","o",
    "t","e","d"," ","y","o","u","r"," ","r","o","o","m"," ","n","u","m","b",
    "e","r"," ","a","s"," ">>
ThankYouSuffix ==
  <<"."," ","H","o","w"," ","c","a","n"," ","I"," ","a","s","s","i","s","t",
    " ","y","o","u"," ","t","o","d","a","y","?">>
WelcomeText ==
  <<"W","e","l","c","o","m","e"," ","t","o"," ","o","u","r"," ","h","o","t",
    "e","l"," ","r","o","o","m"," ","s","e","r","v","i","c","e","!"," ","C",
    "o","u","l","d"," ","y","o","u"," ","p","l","e","a","s","e"," ","p","r",
    "o","v","i","d","e"," ","y","o","u","r"," ","r","o","o","m"," ","n","u",
    "m","b","e","r"," ","s","o"," ","I"," ","c","a","n"," ","a","s","s","i",
    "s","t"," ","y","o","u"," ","b","e","t","t","e","r","?">>
MissingRoomText ==
  <<"I"," ","n","e","e","d"," ","y","o","u","r"," ","r","o","o","m"," ","n",
    "u","m","b","e","r"," ","t","o"," ","p","l","a","c","e"," ","t","h","e",
    " ","o","r","d","e","r","."," ","C","o","u","l","d"," ","y","o","u"," ",
    "p","r","o","v","i","d","e"," ","i","t","?">>
EmptyOrderText ==
  <<"Y","o","u","r"," ","o","r","d","e","r"," ","a","p","p","e","a","r","s",
    " ","t","o"," ","b","e"," ","e","m","p","t","y","."," ","W","o","u","l",
    "d"," ","y","o","u"," ","l","i","k","e"," ","t","o"," ","a","d","d"," ",
    "s","o","m","e"," ","i","t","e","m","s"," ","f","i","r","s","t","?">>
ValidPrefix ==
  <<"O","r","d","e","r"," ","v","a","l","i","d","a","t","i","o","n"," ","c",
    "o","m","p","l","e","t","e","."," ","R","e","a","d","y"," ","t","o"," ",
    "p","l","a","c","e"," ","o","r","d","e","r"," ","f","o","r"," ","r","o",
    "o","m"," ">>
PlacedPrefix ==
  <<"O","r","d","e","r"," ","p","l","a","c","e","d"," ","s","u","c","c","e",
    "s","s","f","u","l","l","y"," ","f","o","r"," ","r","o","o","m"," ">>
UnableText ==
  <<"U","n","a","b","l","e"," ","t","o"," ","p","l","a","c","e"," ","o","r",
    "d","e","r","."," ","M","i","s","s","i","n","g"," ","i","n","f","o","r",
    "m","a","t","i","o","n",".">>
ToolText ==
  <<"A","d","d","e","d"," ","1","x"," ","P","i","z","z","a"," ","t","o"," ",
    "y","o","u","r"," ","o","r","d","e","r",".">>

\* \w of the regular expression: a letter, a digit or the underscore
IsWordChar(c) ==
  \/ IsDigitChar(c)
  \/ c = "_"
  \/ \E i \in 1..Len(LowerChars) : LowerChars[i] = c \/ UpperChars[i] = c

\* \b\d{n}\b matches content at position i
DigitsAt(content, i, n) ==
  /\ i + n - 1 <= Len(content)
  /\ \A j \in i .. i + n - 1 : IsDigitChar(content[j])
  /\ i > 1 => ~IsWordChar(content[i - 1])
  /\ i + n <= Len(content) => ~IsWordChar(content[i + n])

\* re.search(r'\b\d{3,4}\b', content).group(): the leftmost match, four
\* digits before three, or <<>> when there is none
room_match(content) ==
  LET starts == {i \in 1..Len(content) :
                   DigitsAt(content, i, 4) \/ DigitsAt(content, i, 3)}
  IN  IF starts = {} THEN <<>>
      ELSE LET i == CHOOSE k \in starts : \A m \in starts : k <= m
           IN  IF DigitsAt(content, i, 4) THEN SubSeq(content, i, i + 3)
               ELSE SubSeq(content, i, i + 2)

\* any(keyword in content for keyword in keywords)
any_keyword(keywords, content) == \E k \in keywords : IsSubstr(k, content)

\* guest_validation_node
guest_validation_node(st) ==
  IF Truthy(st.room_number)
  THEN [st EXCEPT !.validation_status = "room_validated"]
  ELSE
    LET room_number == room_match(Lower(st.last_message.content))
    IN  IF room_number # <<>>
        THEN [st EXCEPT
                !.room_number = PyStr(room_number),
                !.validation_status = "room_captured",
                !.last_message =
                   Message("ai", ThankYouPrefix \o room_number \o ThankYouSuffix, FALSE)]
        ELSE [st EXCEPT
                !.validation_status = "room_needed",
                !.last_message = Message("ai", WelcomeText, FALSE)]

\* intent_classification_node: the intent of a lowercased content
classify(content) ==
  IF any_keyword(confirm_keywords, content) THEN "order_confirmation"
  ELSE IF any_keyword(modify_keywords, content) THEN "order_modification"
  ELSE IF any_keyword(order_keywords, content) THEN "order_placement"
  ELSE IF any_keyword(menu_keywords, content) THEN "menu_inquiry"
  ELSE "general_inquiry"

\* intent_classification_node
intent_classification_node(st) ==
  [st EXCEPT !.intent = classify(Lower(st.last_message.content))]

\* order_validation_node
order_validation_node(st) ==
  IF ~Truthy(st.room_number)
  THEN [st EXCEPT !.validation_result = "missing_room",
                  !.last_message = Message("ai", MissingRoomText, FALSE)]
  ELSE IF st.order_summary = {}
  THEN [st EXCEPT !.validation_result = "empty_order",
                  !.last_message = Message("ai", EmptyOrderText, FALSE)]
  ELSE [st EXCEPT !.validation_result = "valid",
                  !.last_message =
                     Message("ai", ValidPrefix \o st.room_number.v \o <<".">>, FALSE)]

\* order_placement_tools
order_placement_tools(st) ==
  IF st.order_summary # {} /\ Truthy(st.room_number)
  THEN [st EXCEPT !.conversation_phase = "completed",
                  !.last_message =
                     Message("ai", PlacedPrefix \o st.room_number.v \o <<"!">>, FALSE)]
  ELSE [st EXCEPT !.conversation_phase = "ordering",
                  !.last_message = Message("ai", UnableText, FALSE)]

\* menu_retrieval_agent: the model answers, with a call of
\* retrieve_menu_info or without
menu_retrieval_agent(st, response) ==
  [st EXCEPT !.last_message = response, !.conversation_phase = "menu_browsing"]

\* order_management_agent: the model answers, with a call of update_order or
\* without
order_management_agent(st, response) ==
  [st EXCEPT !.last_message = response, !.conversation_phase = "ordering"]

\* general_agent: the model answers, no tool being bound
general_agent(st, response) == [st EXCEPT !.last_message = response]

\* tool_executor_node: the tool's message follows the call; order_summary is
\* written back as it was
tool_executor_node(st) ==
  IF st.last_message.tool_calls
  THEN [st EXCEPT !.last_message = Message("tool", ToolText, FALSE)]
  ELSE st

\* route_after_guest_validation
route_after_guest_validation(st) ==
  IF st.validation_status = "room_needed" THEN "END"
  ELSE IF st.validation_status = "room_captured" THEN "intent_classification"
  ELSE IF st.validation_status = "room_validated" THEN "intent_classification"
  ELSE "guest_validation"

\* route_after_intent_classification
route_after_intent_classification(st) ==
  IF st.intent = "menu_inquiry" THEN "menu_retrieval_agent"
  ELSE IF st.intent = "order_placement" THEN "order_management_agent"
  ELSE IF st.intent = "order_modification" THEN "order_management_agent"
  ELSE IF st.intent = "order_confirmation" THEN "order_validation"
  ELSE "general_agent"

\* route_after_order_validation
route_after_order_validation(st) ==
  IF st.validation_result = "valid" THEN "order_placement_tools"
  ELSE IF st.validation_result = "missing_room" THEN "guest_validation"
  ELSE IF st.validation_result = "empty_order" THEN "order_management_agent"
  ELSE "general_agent"

\* should_continue_to_tools
should_continue_to_tools(st) ==
  IF st.last_message.tool_calls THEN "tools" ELSE "intent_classification"

\* should_end_conversation
should_end_conversation(st) ==
  IF st.conversation_phase = "completed" THEN "END" ELSE "guest_validation"

\* route_from_tools
route_from_tools(st) ==
  IF st.intent = "menu_inquiry" THEN "menu_retrieval_agent"
  ELSE IF st.intent \in {"order_placement", "order_modification"}
  THEN "order_management_agent"
  ELSE "general_agent"

\* _build_graph: workflow.add_edge("general_agent", "intent_classification")
edge_after_general_agent == "intent_classification"

\* the states process_message is given: what an earlier turn left, or the
\* state it builds itself
PriorStates ==
  {[room_number |-> r, order_summary |-> o,
    validation_status |-> "None", intent |-> "None",
    validation_result |-> "None", conversation_phase |-> "None",
    last_message |-> Message("none", <<>>, FALSE)] :
     r \in {PyNone, PyStr(S_101)}, o \in {{}, {"Pizza"}}}

GraphInit ==
  /\ service_cache = ServiceCacheInit
  /\ order_manager = reset
  /\ node = initial_node
  /\ last = Returned("init", "none", initial_node, NoData)
  /\ posts = 0
  /\ removes = 0
  /\ util = NoCall
  /\ tasks = NoTasks
  /\ fetches = NoFetches
  /\ sessions = NoSessions
  /\ db = NoDb
  /\ voice = NoVoiceCall
  /\ submission = NoSubmission
  /\ calls = NoCalls
  /\ \E st \in PriorStates : graph = [at |-> "idle", visits |-> 0, state |-> st]

GraphFrame ==
  UNCHANGED <<service_cache, order_manager, node, last, posts, removes,
              util, tasks, fetches, sessions, db, voice, submission, calls>>

\* process_message: the guest's message is appended and the walk starts at
\* the entry point
process_message ==
  /\ graph.at = "idle"
  /\ \E text \in UserTexts :
        graph' = [at |-> "guest_validation", visits |-> 0,
                  state |-> [graph.state EXCEPT
                               !.last_message = Message("human", text, FALSE)]]
  /\ GraphFrame

\* the node is due and the walk may take another superstep
Due(n) == graph.at = n /\ graph.visits < recursion_limit

\* the walk after the superstep of a node: the node has run and its edge
\* has named the next
Visited(st, next) == [at |-> next, visits |-> graph.visits + 1, state |-> st]

visit_guest_validation ==
  /\ Due("guest_validation")
  /\ LET st == guest_validation_node(graph.state)
     IN  graph' = Visited(st, route_after_guest_validation(st))
  /\ GraphFrame

visit_intent_classification ==
  /\ Due("intent_classification")
  /\ LET st == intent_classification_node(graph.state)
     IN  graph' = Visited(st, route_after_intent_classification(st))
  /\ GraphFrame

visit_menu_retrieval_agent ==
  /\ Due("menu_retrieval_agent")
  /\ \E text \in LlmTexts, tool_calls \in BOOLEAN :
        LET st == menu_retrieval_agent(graph.state, Message("ai", text, tool_calls))
        IN  graph' = Visited(st, should_continue_to_tools(st))
  /\ GraphFrame

visit_order_management_agent ==
  /\ Due("order_management_agent")
  /\ \E text \in LlmTexts, tool_calls \in BOOLEAN :
        LET st == order_management_agent(graph.state, Message("ai", text, tool_calls))
        IN  graph' = Visited(st, should_continue_to_tools(st))
  /\ GraphFrame

visit_general_agent ==
  /\ Due("general_agent")
  /\ \E text \in LlmTexts :
        LET st == general_agent(graph.state, Message("ai", text, FALSE))
        IN  graph' = Visited(st, edge_after_general_agent)
  /\ GraphFrame

visit_order_validation ==
  /\ Due("order_validation")
  /\ LET st == order_validation_node(graph.state)
     IN  graph' = Visited(st, route_after_order_validation(st))
  /\ GraphFrame

visit_order_placement_tools ==
  /\ Due("order_placement_tools")
  /\ LET st == order_placement_tools(graph.state)
     IN  graph' = Visited(st, should_end_conversation(st))
  /\ GraphFrame

visit_tools ==
  /\ Due("tools")
  /\ LET st == tool_executor_node(graph.state)
     IN  graph' = Visited(st, route_from_tools(st))
  /\ GraphFrame

\* ainvoke: the walk has taken recursion_limit supersteps and has not
\* reached END
graph_recursion_error ==
  /\ graph.at \notin {"idle", "END", "GraphRecursionError"}
  /\ graph.visits = recursion_limit
  /\ graph' = [graph EXCEPT !.at = "GraphRecursionError"]
  /\ GraphFrame

GraphNext ==
  \/ process_message
  \/ visit_guest_validation
  \/ visit_intent_classification
  \/ visit_menu_retrieval_agent
  \/ visit_order_management_agent
  \/ visit_general_agent
  \/ visit_order_validation
  \/ visit_order_placement_tools
  \/ visit_tools
  \/ graph_recursion_error

GraphSpec == GraphInit /\ [][GraphNext]_vars
----------------------------------------------------------------------------
(* Properties *)

\* sum(line quantity * line unit_price) over the lines, as floats
RECURSIVE LineSum(_, _)
LineSum(items, acc) ==
  IF items = <<>> THEN acc
  ELSE LineSum(Tail(items), FAdd(acc, FMul(items[1].unit_price, items[1].quantity)))

\* C1: after every add_item and remove_item call from a freshly reset order,
\* total_amount equals the sum over the current lines of quantity x unit_price.
C1_TotalEqualsSumOfLines ==
  order_manager.total_amount = LineSum(order_manager.items, 0)

\* the step is the call `call` of the function fn
Step(fn, call) == last'.fn = fn /\ call

\* a step of place_order
PlaceOrderStep ==
  \E a \in ConfirmationArgs : \E o \in PostOutcomes :
     Step("place_order", place_order(a, o))

\* C2: every place_order with an affirmative confirmation on a non-empty
\* order issues exactly one POST to the Order Service, and no step other than
\* a place_order issues a POST.
C2_OnePostPerConfirmation ==
  [][ /\ \A o \in PostOutcomes :
           (Step("place_order", place_order(PyStr(S_yes), o)) /\ order_manager.items # <<>>)
              => posts' = posts + 1
      /\ posts' # posts => PlaceOrderStep ]_vars

C2_Witness ==
  /\ last.fn = "place_order"
  /\ last.status = "success"
  /\ posts = 1

\* C3: a failed submission is not retried: the place_order whose call to the
\* Order Service fails issues one POST and moves the session to order_failed,
\* and a POST is only ever issued by a place_order that the current node
\* offers.
C3_NoAutomaticRetry ==
  [][ /\ \A a \in ConfirmationArgs : \A o \in PostOutcomes \ AcceptedStatuses :
           (Step("place_order", place_order(a, o)) /\ posts' # posts)
              => (posts' = posts + 1 /\ node' = "order_failed")
      /\ posts' # posts =>
           (PlaceOrderStep /\ "place_order" \in Functions(node)) ]_vars

C3_Witness ==
  /\ node = "order_failed"
  /\ last.fn = "place_order"
  /\ last.status = "failed"
  /\ posts = 1

\* C4: a confirmed place_order on an order with zero lines returns status
\* 'empty' with next node empty_order, issues no POST and leaves the order
\* unchanged.
C4_EmptyOrderNotSubmitted ==
  [][ \A o \in PostOutcomes \cup {"none"} :
        (Step("place_order", place_order(PyStr(S_yes), o)) /\ order_manager.items = <<>>)
           => /\ last'.status = "empty"
              /\ last'.next = "empty_order"
              /\ posts' = posts
              /\ order_manager' = order_manager ]_vars

C4_Witness ==
  /\ last.fn = "place_order"
  /\ last.status = "empty"
  /\ order_manager.items = <<>>
  /\ posts = 0

\* C5: place_order with the confirmation "no" issues no POST and takes the
\* session back to the greeting node.
C5_DeclineReturnsToGreeting ==
  [][ \A o \in PostOutcomes \cup {"none"} :
        Step("place_order", place_order(PyStr(S_no), o))
           => (posts' = posts /\ node' = initial_node) ]_vars

\* C6: a place_order on an order whose guest id is not set issues no POST.
C6_NoPostWithoutGuest ==
  [][ (PlaceOrderStep /\ order_manager.guest_id = NoneId)
         => posts' = posts ]_vars

\* C7: every next node a handler returns is a node the flow declares.
C7_NextNodeDeclared ==
  last.raised = "none" => last.next \in Nodes

\* C9: every call of a handler ends with a result and a next node the flow
\* declares; none ends with an exception.
C9_EveryCallEndsInNode ==
  /\ last.raised = "none"
  /\ last.next \in Nodes

\* the cached category whose name is the given name, 0 when there is none
CachedCategory(cache, name) ==
  LET Same(cat) == Lower(cat.name) = Lower(name)
  IN  FirstIndex(cache.categories.v, Same)

\* C10: on the happy path a room that resolves to a guest leads to
\* welcome_guest with that guest, select_category of an existing category
\* returns that category's items and leads to show_items, add_to_order with
\* quantity "two" into an empty order leaves total_amount = 2 x the item's
\* price, and a confirmed place_order that the Order Service accepts returns
\* the order's id and leads to order_complete.
C10_HappyPath ==
  [][ /\ \A a \in RoomArgs : \A r \in GuestResponses(Strip(a.v)) :
           (Step("validate_room", validate_room(a, r)) /\ r.status = "200")
              => /\ node' = "welcome_guest"
                 /\ order_manager'.guest_id = r.guest.id
                 /\ last'.data.guest_name = r.guest.name
      /\ \A a \in CategoryArgs : \A fc, fi \in FetchOutcomes :
           (/\ Step("select_category", select_category(a, fc, fi))
            /\ IsStr(a)
            /\ CachedCategory(service_cache', a.v) # 0)
              => LET cat == service_cache'.categories.v[CachedCategory(service_cache', a.v)]
                 IN  /\ node' = "show_items"
                     /\ last'.data.category = cat.name
                     /\ last'.data.items =
                          SelectSeq(service_cache'.menu_items.v,
                                    LAMBDA item : item.category_id = cat.id)
      /\ \A a \in AddToOrderArgs : \A fc, fi \in FetchOutcomes :
           (/\ Step("add_to_order", add_to_order(a[1], a[2], a[3], fc, fi))
            /\ a[2] = PyStr(S_two)
            /\ last'.status = "added"
            /\ order_manager.items = <<>>)
              => /\ node' = "item_added"
                 /\ Len(order_manager'.items) = 1
                 /\ order_manager'.total_amount = 2 * order_manager'.items[1].unit_price
      /\ (Step("place_order", place_order(PyStr(S_yes), "201")) /\ order_manager.items # <<>>)
              => /\ node' = "order_complete"
                 /\ last'.data.order_id = "order1"
                 /\ order_manager'.order_id = "order1" ]_vars

C10_Witness ==
  /\ node = "order_complete"
  /\ order_manager.guest_id = "guest1"
  /\ Len(order_manager.items) = 1
  /\ order_manager.items[1].name = S_Pancakes
  /\ order_manager.items[1].quantity = 2
  /\ order_manager.total_amount = 2 * CatalogItems[1].price
  /\ order_manager.order_id = "order1"


\* the item's name is the spoken name, whatever the case
ExactMatch(spoken, item) == Lower(item.name) = Lower(spoken)

\* one of the item's name and the spoken name contains the other
SubstringMatch(spoken, item) ==
  \/ IsSubstr(Lower(spoken), Lower(item.name))
  \/ IsSubstr(Lower(item.name), Lower(spoken))

\* a call of find_menu_item_by_name has returned
Resolved == util.fn = "find_menu_item_by_name" /\ util.state = "done"

\* C15: find_menu_item_by_name respects the precedence of its tiers: when the
\* name of some item of the menu equals the spoken name case-insensitively, an
\* item with such a name is returned, whatever matches earlier in the menu by
\* containment or by word overlap; when no name is equal and some item
\* matches by containment, an item that matches by containment is returned.
C15_TierPrecedence ==
  Resolved =>
    LET m == util.menu
        t == util.text.v
        r == util.result
    IN  /\ (\E i \in 1..Len(m) : ExactMatch(t, m[i]))
             => (r # 0 /\ ExactMatch(t, m[r]))
        /\ ((\A i \in 1..Len(m) : ~ExactMatch(t, m[i]))
             /\ (\E i \in 1..Len(m) : SubstringMatch(t, m[i])))
             => (r # 0 /\ SubstringMatch(t, m[r]))

C15_Witness ==
  /\ Resolved
  /\ util.result = 3
  /\ util.menu[1].name = S_GrilledCaesarChickenSalad
  /\ util.menu[2].name = S_CaesarSaladWrap
  /\ util.menu[3].name = S_CaesarSalad
  /\ ExactMatch(util.text.v, util.menu[3])
  /\ SubstringMatch(util.text.v, util.menu[2])

\* C16: convert_text_to_number returns an integer >= 1 for every value it is
\* given.
C16_QuantityAtLeastOne ==
  (util.fn = "convert_text_to_number" /\ util.state = "done") => util.result >= 1

\* C17: every line of the order has a quantity of at least 1, whatever
\* quantity add_to_order is given.
C17_LineQuantityAtLeastOne ==
  \A i \in 1..Len(order_manager.items) : order_manager.items[i].quantity >= 1

\* the step appended a line to the order
Appended == Len(order_manager'.items) = Len(order_manager.items) + 1

\* the ids of the items of a cached list that are available
AvailableIds(menu_items) ==
  { menu_items[i].id : i \in { j \in 1..Len(menu_items) : menu_items[j].is_available } }

\* C18: add_to_order appends a line only for an item that is in the cached
\* menu items, and available there, when the line is added; with an empty
\* list of cached menu items it appends nothing.
C18_LineOnlyForAvailableItem ==
  [][ (last'.fn = "add_to_order" /\ Appended)
         => /\ service_cache'.menu_items.k = "list"
            /\ service_cache'.menu_items.v # <<>>
            /\ order_manager'.items[Len(order_manager'.items)].menu_item_id
                 \in AvailableIds(service_cache'.menu_items.v) ]_vars

C18_Witness ==
  /\ last.fn = "add_to_order"
  /\ last.status = "added"
  /\ Len(order_manager.items) = 1
  /\ order_manager.items[1].menu_item_id \in AvailableIds(service_cache.menu_items.v)

\* a cached category matches the name as select_category matches it
CategoryMatches(name, cat) ==
  \/ Lower(cat.name) = Lower(name)
  \/ IsSubstr(Lower(name), Lower(cat.name))

\* enough of the words of the spoken name are words of the item's name
TokenMatch(spoken, item) ==
  10 * Cardinality(Words(Lower(spoken)) \cap Words(Lower(item.name)))
    >= 7 * Cardinality(Words(Lower(spoken)))

\* the cached menu holds an item the spoken name matches
KnownItem(spoken, menu_items) ==
  \E i \in 1..Len(menu_items) :
     \/ ExactMatch(spoken, menu_items[i])
     \/ SubstringMatch(spoken, menu_items[i])
     \/ TokenMatch(spoken, menu_items[i])

\* the step went to the node `target`, which offers the function `retry`,
\* and left the order as it was
RoutedToRetry(target, retry) ==
  /\ last'.raised = "none"
  /\ last'.next = target
  /\ node' = target
  /\ retry \in Functions(node')
  /\ order_manager' = order_manager

\* C11: an unknown room, category or item does not end the conversation:
\* validate_room goes to invalid_room, select_category to category_not_found
\* and add_to_order to item_not_found; the result carries the room number
\* that was looked up (the argument without surrounding blanks), the category
\* name or the item name that was given; the order is unchanged; and the node
\* reached offers the function that looks up again.
C11_UnknownRoutesToRetry ==
  [][ /\ \A a \in RoomArgs : \A r \in GuestResponses(Strip(a.v)) :
           (Step("validate_room", validate_room(a, r)) /\ IsStr(a) /\ r.status # "200")
              => /\ RoutedToRetry("invalid_room", "validate_room")
                 /\ last'.status = "invalid"
                 /\ last'.data.room_number = Strip(a.v)
      /\ \A a \in CategoryArgs : \A fc, fi \in FetchOutcomes :
           (/\ Step("select_category", select_category(a, fc, fi))
            /\ IsStr(a)
            /\ \A i \in 1..Len(service_cache'.categories.v) :
                  ~CategoryMatches(a.v, service_cache'.categories.v[i]))
              => /\ RoutedToRetry("category_not_found", "select_category")
                 /\ last'.status = "not_found"
                 /\ last'.data.category = a.v
      /\ \A a \in AddToOrderArgs : \A fc, fi \in FetchOutcomes :
           (/\ Step("add_to_order", add_to_order(a[1], a[2], a[3], fc, fi))
            /\ IsStr(a[1])
            /\ ~KnownItem(a[1].v, service_cache'.menu_items.v))
              => /\ RoutedToRetry("item_not_found", "add_to_order")
                 /\ last'.status = "not_found"
                 /\ last'.data.item = a[1].v ]_vars

C11_Witness ==
  /\ node = "item_not_found"
  /\ last.fn = "add_to_order"
  /\ last.status = "not_found"
  /\ last.data.item = S_Sushi
  /\ service_cache.menu_items.v # <<>>

\* the step refreshed the cache with the fetch outcomes fc and fi, no
\* exception left the handler, the next node is a node of the flow, and a
\* list whose fetch failed is the empty list
FailSoft(fc, fi) ==
  /\ last'.raised = "none"
  /\ last'.next \in Nodes
  /\ service_cache'.categories.k = "list"
  /\ service_cache'.menu_items.k = "list"
  /\ fc # "200" => service_cache'.categories = PyList(<<>>)
  /\ fi # "200" => service_cache'.menu_items = PyList(<<>>)

\* C14: the cache is fail-soft: when a fetch of refresh_menu_data answers
\* with a status other than 200 or raises, the list it fetches becomes the
\* empty list, and show_categories, select_category and add_to_order, called
\* on an unpopulated cache, return a result and a next node of the flow.
C14_CacheFailSoft ==
  [][ /\ NoCategories =>
           \A fc, fi \in FetchOutcomes :
              Step("show_categories", show_categories(fc, fi)) => FailSoft(fc, fi)
      /\ (NoCategories \/ NoMenuItems) =>
           \A a \in CategoryArgs : \A fc, fi \in FetchOutcomes :
              (IsStr(a) /\ Step("select_category", select_category(a, fc, fi)))
                 => FailSoft(fc, fi)
      /\ NoMenuItems =>
           \A a \in AddToOrderArgs : \A fc, fi \in FetchOutcomes :
              (IsStr(a[1]) /\ Step("add_to_order", add_to_order(a[1], a[2], a[3], fc, fi)))
                 => FailSoft(fc, fi)
      /\ \A fc, fi \in FetchOutcomes :
           Step("refresh_menu_data", call_refresh_menu_data(fc, fi))
              => /\ fc # "200" => service_cache'.categories = PyList(<<>>)
                 /\ fi # "200" => service_cache'.menu_items = PyList(<<>>) ]_vars

C14_Witness ==
  /\ last.fn = "show_categories"
  /\ last.raised = "none"
  /\ last.next = "category_selection"
  /\ last.data.categories = <<>>
  /\ service_cache.categories = PyList(<<>>)

\* the task has made two calls of get_menu_items without force_refresh, one
\* after the other, and both have returned
TwoPlainReads(t) ==
  /\ tasks[t].pc = "idle"
  /\ tasks[t].done >= 2
  /\ tasks[t].prev = [tasks[t].prev EXCEPT !.fn = "get_menu_items", !.force_refresh = FALSE]
  /\ tasks[t].cur  = [tasks[t].cur  EXCEPT !.fn = "get_menu_items", !.force_refresh = FALSE]

\* C12: two successive get_menu_items calls without force_refresh issue at
\* most one GET for the menu items between them, whether the first fetch
\* succeeds, answers with another status or raises.
C12_SecondReadDoesNotFetch ==
  \A t \in Tasks :
     TwoPlainReads(t) => tasks[t].prev.fetched + tasks[t].cur.fetched <= 1

C12_Witness ==
  /\ TwoPlainReads("t1")
  /\ tasks["t1"].prev.fetched = 1
  /\ tasks["t1"].cur.fetched = 0
  /\ tasks["t2"].done = 0
  /\ service_cache.menu_items = PyList(<<>>)
  /\ fetches["menu_items"] = 1

\* C13: refreshes are single-flight: at no time are two GETs for the same
\* endpoint of the Catalog Service in flight from two tasks.
C13_SingleFlight ==
  \A e \in Endpoints : Cardinality({t \in Tasks : tasks[t].pc = e}) <= 1

\* a step of the session s
StepOf(s) ==
  \/ start_voice_call(s)
  \/ session_turn(s)
  \/ end_conversation(s)
  \/ on_participant_left(s)
  \/ pipeline_error(s)
  \/ session_finally(s)

\* C19: every session has an order manager of its own: two sessions never
\* use the same one, and no step of a session changes the lines, notes,
\* guest identity or total of the order of another session.
C19_SessionsOwnTheirOrder ==
  [][ \A s, o \in Sessions :
        (s # o /\ StepOf(s))
           => /\ process_of(s) # process_of(o)
              /\ OrderOf(o)' = OrderOf(o) ]_vars

C19_Witness ==
  /\ sessions.proc["s1"].phase = "running"
  /\ sessions.proc["s2"].phase = "running"
  /\ sessions.proc["s1"].node = "order_complete"
  /\ sessions.proc["s2"].node = "request_special"
  /\ OrderOf("s1").guest_id = "guest1"
  /\ OrderOf("s1").order_id = "order1"
  /\ OrderOf("s1").items[1].name = S_Pancakes
  /\ OrderOf("s2").guest_id = "guest2"
  /\ OrderOf("s2").order_id = NoneId
  /\ OrderOf("s2").items[1].name = S_Coffee
  /\ Len(OrderOf("s2").items) = 1

\* C20: a session that is completed, whether it ended at the goodbye node,
\* by the participant leaving or by an error of the pipeline, has had its
\* order manager reset: no line, note, guest identity, order id or total is
\* left.
C20_ResetBeforeCompleted ==
  \A s \in Sessions :
     sessions.proc[s].phase = "completed" => OrderOf(s) = reset

C20_Witness ==
  /\ sessions.proc["s1"].phase = "completed"
  /\ sessions.proc["s1"].how = "goodbye"
  /\ sessions.proc["s1"].node = "goodbye"
  /\ sessions.proc["s2"].phase = "completed"
  /\ sessions.proc["s2"].how = "cancelled"
  /\ sessions.proc["s2"].node = "confirm_order"
  /\ OrderOf("s1") = reset
  /\ OrderOf("s2") = reset

----------------------------------------------------------------------------
(* The word tier of the resolver *)

\* the distinct lowercase words the spoken name and the item's name share
SharedTokens(spoken, item) == Words(Lower(spoken)) \cap Words(Lower(item.name))

\* the item shares at least 70% of the spoken name's words
Qualifies(spoken, item) ==
  100 * Cardinality(SharedTokens(spoken, item)) >= 70 * Cardinality(Words(Lower(spoken)))

\* C28: when no item of the menu matches the spoken name exactly or by
\* containment in either direction, find_menu_item_by_name returns the first
\* item of the menu that shares at least 70% of the spoken name's distinct
\* lowercase words, and none when no item does.
C28_TokenTier ==
  Resolved =>
    LET m == util.menu
        t == util.text.v
        r == util.result
        Q == {i \in 1..Len(m) : Qualifies(t, m[i])}
    IN  (\A i \in 1..Len(m) : ~ExactMatch(t, m[i]) /\ ~SubstringMatch(t, m[i]))
          => IF Q = {} THEN r = 0
             ELSE r \in Q /\ \A i \in Q : r <= i

C28_Witness ==
  /\ Resolved
  /\ Len(util.menu) = 2
  /\ util.menu[1].name = S_CaesarSaladWrap
  /\ util.menu[2].name = S_GrilledCaesarChickenSalad
  /\ Len(util.text.v) = 27
  /\ util.result = 2

----------------------------------------------------------------------------
(* The quantity parser *)

\* a call of convert_text_to_number has returned
Parsed == util.fn = "convert_text_to_number" /\ util.state = "done"

\* the cardinal words zero..twenty and the tens thirty..ninety
CardinalWords == {p[1] : p \in {q \in text_to_num_pairs : q[2] <= 90}}
\* the tens twenty..ninety and the units one..nine
TensWords == {p[1] : p \in {q \in text_to_num_pairs : q[2] \in {20, 30, 40, 50, 60, 70, 80, 90}}}
UnitWords == {p[1] : p \in {q \in text_to_num_pairs : q[2] \in 1..9}}

\* the quantity the documented rules give a token, read case-insensitively
\* and without the blanks around it
DocumentedQuantity(text) ==
  IF IsInt(text) THEN text.n
  ELSE IF IsStr(text) /\ IsDigit(text.v) THEN ToInt(text.v)
  ELSE IF ~IsStr(text) THEN 1
  ELSE LET t     == Strip(Lower(text.v))
           parts == SplitOn(t, "-")
       IN  IF t \in CardinalWords THEN text_to_num(t)
           ELSE IF Len(parts) = 2 /\ parts[1] \in TensWords /\ parts[2] \in UnitWords
                THEN text_to_num(parts[1]) + text_to_num(parts[2])
           ELSE IF t \in {<<"a">>, <<"a","n">>} THEN 1
           ELSE IF FirstDigitRun(t) # <<>> THEN ToInt(FirstDigitRun(t))
           ELSE 1

\* C29: convert_text_to_number maps an integer or a digit string to its
\* value, a cardinal word (zero..twenty, thirty..ninety) to its table value, a
\* hyphenated tens-plus-unit compound to the sum of the two table values,
\* "a" and "an" to 1, and any other token to its first digit run or, without
\* one, to 1.
C29_DocumentedQuantity ==
  Parsed => util.result = DocumentedQuantity(util.text)

----------------------------------------------------------------------------
(* OrderManager.remove_item *)

\* the lines whose name is the given name, whatever the case
NamedLines(items, item_name) ==
  {i \in 1..Len(items) : Lower(items[i].name) = Lower(item_name)}

\* the list without its i-th element
Without(items, i) ==
  [j \in 1..(Len(items) - 1) |-> IF j < i THEN items[j] ELSE items[j + 1]]

\* C30: remove_item removes exactly the first line whose name equals the
\* given name case-insensitively, decrements total_amount by that line's
\* total_price, keeps the other lines and their order and returns True; when
\* no line matches it returns False and leaves the lines and total_amount
\* as they were.
C30_RemoveItemFrame ==
  [][\A n \in RemoveArgs :
       Step("remove_item", call_remove_item(n)) =>
         LET items == order_manager.items
             hits  == NamedLines(items, n)
         IN  IF hits = {}
             THEN /\ last'.status = "False"
                  /\ order_manager' = order_manager
             ELSE LET i == CHOOSE h \in hits : \A g \in hits : h <= g
                  IN  /\ last'.status = "True"
                      /\ order_manager'.items = Without(items, i)
                      /\ order_manager'.total_amount =
                           FSub(order_manager.total_amount, items[i].total_price)
                      /\ order_manager' =
                           [order_manager EXCEPT
                              !.items = order_manager'.items,
                              !.total_amount = order_manager'.total_amount]]_vars

\* the first of two Pancakes lines has been removed
C30_Witness ==
  /\ last.fn = "remove_item"
  /\ last.status = "True"
  /\ removes = 1
  /\ Len(order_manager.items) = 1
  /\ order_manager.items[1].name = S_Pancakes
  /\ order_manager.items[1].quantity = 2
  /\ order_manager.total_amount = FSub(FAdd(FAdd(0, 7), 14), 7)

----------------------------------------------------------------------------
(* Rebuilding the cached snapshot *)

\* the list a read returns is missing or empty
EmptySnapshot(cache, fn) ==
  LET list == IF fn = "get_categories" THEN cache.categories ELSE cache.menu_items
  IN  list.k = "none" \/ list.v = <<>>

\* the task t calls get_categories or get_menu_items in this step
CallBy(t) == tasks[t].pc = "idle" /\ tasks'[t] # tasks[t]

\* C27: get_categories and get_menu_items rebuild the snapshot from the
\* Catalog Service whenever the cached snapshot is empty or force_refresh is
\* set, an empty list left by an earlier failed fetch included, and a rebuild
\* replaces both the categories and the menu items by what the service
\* answered.
C27_RebuildWhenEmpty ==
  [][\A t \in Tasks :
       /\ (CallBy(t) /\ (tasks'[t].cur.force_refresh
                           \/ EmptySnapshot(service_cache, tasks'[t].cur.fn)))
            => tasks'[t].pc = "categories"
       /\ (tasks[t].pc = "categories" /\ tasks'[t].pc = "menu_items")
            => service_cache'.categories \in {PyList(CatalogCategories), PyList(<<>>)}
       /\ (tasks[t].pc = "menu_items" /\ tasks'[t].pc = "idle")
            => service_cache'.menu_items \in {PyList(CatalogItems), PyList(<<>>)}]_vars

----------------------------------------------------------------------------
(* The documented flow *)

\* a handler that returned in this step returned a node name of its table
ReturnsWithinTable ==
  [][(last' # last /\ last'.raised = "none" /\ last'.fn \in DOMAIN handler_returns)
        => last'.next \in handler_returns[last'.fn]]_vars

\* the edges of the documented flow
DocumentedEdges ==
  { <<"greeting", "request_room">>,
    <<"request_room", "invalid_room">>, <<"request_room", "welcome_guest">>,
    <<"invalid_room", "request_room">>,
    <<"show_items", "item_added">>,
    <<"item_added", "category_selection">>, <<"item_added", "request_special">>,
    <<"request_special", "confirm_order">>,
    <<"confirm_order", "order_complete">>, <<"confirm_order", "order_failed">>,
    <<"confirm_order", "empty_order">>,
    <<"order_complete", "goodbye">>, <<"order_failed", "goodbye">>,
    <<"empty_order", "goodbye">> }

\* the pairs of nodes documented as reaching each other
DocumentedPaths ==
  { <<"category_selection", "show_items">>, <<"show_items", "category_selection">> }

\* C26: the transition relation of the flow contains every edge of the
\* documented flow: at whatever node the session is, the documented edges
\* that leave the node are edges of the flow, and the nodes documented as
\* reached from it are reached along the flow's edges.
C26_DocumentedEdges ==
  /\ \A e \in DocumentedEdges : e[1] = node => e \in FlowEdges
  /\ \A p \in DocumentedPaths : p[1] = node => p[2] \in ReachedFrom({node}, {})

----------------------------------------------------------------------------
(* The outcome of a submission *)

\* C22: the outcome of a submission follows the class of the response: on
\* any 2xx response place_order returns the placed order with the id and the
\* total amount the Order Service gave and keeps the id; on any other
\* response or a transport failure it returns a failure without raising and
\* the session goes to order_failed.
C22_OutcomeFollowsResponseClass ==
  [][\A o \in PostOutcomes :
       (Step("place_order", place_order(PyStr(S_yes), o)) /\ posts' # posts)
         => IF o \in SuccessStatuses
            THEN /\ last'.raised = "none"
                 /\ last'.status = "success"
                 /\ last'.data = [order_id |-> "order1",
                                  total_amount |-> ServiceTotal(order_manager.items)]
                 /\ order_manager'.order_id = "order1"
                 /\ node' = "order_complete"
            ELSE /\ last'.raised = "none"
                 /\ last'.status = "failed"
                 /\ node' = "order_failed"]_vars

----------------------------------------------------------------------------
(* The Order Service's create_order *)

\* the Order Service answers the request that waits
Answered == db.response = NoResponse /\ db'.response # NoResponse

\* the current price of the menu item with the id
CurrentPrice(menu_item_id) ==
  (CHOOSE i \in {MenuItemDB[j] : j \in 1..Len(MenuItemDB)} : i.id = menu_item_id).price

\* the sum over the lines of the menu item's price times the quantity
RECURSIVE SumOfLines(_)
SumOfLines(lines) ==
  IF lines = <<>> THEN 0
  ELSE CurrentPrice(lines[1].menu_item_id) * lines[1].quantity + SumOfLines(Tail(lines))

\* C23: the order create_order stores has a total_amount equal to the sum
\* over the submitted lines of the menu item's current price times the
\* quantity, and exactly one order item is created per submitted line, with
\* that unit price and that line total.
C23_TotalAndItemsOfCreatedOrder ==
  [][(Answered /\ db'.response.status = "201") =>
       LET lines == db.request.order_items
           n     == Len(db.orders) + 1
       IN  /\ Len(db'.orders) = n
           /\ SubSeq(db'.orders, 1, n - 1) = db.orders
           /\ db'.orders[n].id = db'.response.order_id
           /\ db'.orders[n].total_amount = SumOfLines(lines)
           /\ db'.response.total_amount = SumOfLines(lines)
           /\ Len(db'.order_items) = Len(db.order_items) + Len(lines)
           /\ SubSeq(db'.order_items, 1, Len(db.order_items)) = db.order_items
           /\ \A i \in 1..Len(lines) :
                LET item == db'.order_items[Len(db.order_items) + i]
                IN  /\ item.order_id = db'.orders[n].id
                    /\ item.menu_item_id = lines[i].menu_item_id
                    /\ item.quantity = lines[i].quantity
                    /\ item.unit_price = CurrentPrice(lines[i].menu_item_id)
                    /\ item.total_price =
                         CurrentPrice(lines[i].menu_item_id) * lines[i].quantity]_vars

\* an order of two lines, 2 Pancakes and 3 Coffee, was added to an earlier one
C23_Witness ==
  /\ db.response.status = "201"
  /\ Len(db.orders) = 2
  /\ db.orders[2].total_amount = 29
  /\ Len(db.order_items) = 3
  /\ db.order_items[2].total_price = 14
  /\ db.order_items[3].total_price = 15

\* the request names a guest, and menu items, the Order Service can serve
KnownGuest(order) == order.guest_id \in {g.id : g \in GuestDB}
Orderable(line) ==
  \E j \in 1..Len(MenuItemDB) :
     MenuItemDB[j].id = line.menu_item_id /\ MenuItemDB[j].is_available

\* C24: create_order answers 400 to a request whose guest does not exist or
\* that holds a menu item that does not exist or is not available, and then
\* stores neither an order nor an order item, also when earlier lines of the
\* request were valid.
C24_RejectedRequestStoresNothing ==
  [][(Answered /\ (~KnownGuest(db.request)
                    \/ \E i \in 1..Len(db.request.order_items) :
                          ~Orderable(db.request.order_items[i])))
       => /\ db'.response.status = "400"
          /\ db'.orders = db.orders
          /\ db'.order_items = db.order_items]_vars

\* a request whose first line is valid and whose second is not available was
\* rejected
C24_Witness ==
  /\ db.response.status = "400"
  /\ KnownGuest(db.request)
  /\ Len(db.request.order_items) = 2
  /\ Orderable(db.request.order_items[1])
  /\ db.request.order_items[2].menu_item_id = "item3"
  /\ Len(db.orders) = 1
  /\ Len(db.order_items) = 1

----------------------------------------------------------------------------
(* OrderService.create_order_from_voice *)

\* the call of create_order_from_voice has ended
VoiceDone == voice.state = "done"

\* the name is the name of a menu item, or part of one, whatever the case
NamesMenuItem(item_name) ==
  \E i \in 1..Len(MenuItemDB) : IsSubstr(Lower(item_name), Lower(MenuItemDB[i].name))

\* the menu was looked up for every item and no lookup gave a menu item
NoneResolves(call) ==
  /\ call.guest # "failed"
  /\ \A i \in 1..Len(call.items) :
        /\ call.items[i].menu # "exception"
        /\ (call.items[i].menu # "200" \/ ~NamesMenuItem(call.items[i].name))

\* the POST to the orders endpoint was issued and answered with the status
PostAnswered(status) ==
  voice.result.posts > 0 /\ voice.call.post = status

\* C25: create_order_from_voice raises ValueError and issues no POST to the
\* orders endpoint when none of the spoken item names resolves to a menu
\* item; when the POST is issued and answered with a status other than 201
\* it raises an 'Order creation failed' error and has issued that one POST.
C25_VoiceOrderErrors ==
  VoiceDone =>
    /\ NoneResolves(voice.call)
         => (voice.result.raised = "ValueError" /\ voice.result.posts = 0)
    /\ \A status \in PostOutcomes \ {"201", "exception"} :
         PostAnswered(status)
           => (voice.result.raised = "Order creation failed" /\ voice.result.posts = 1)

\* two spoken names that resolve to nothing ended in ValueError
C25_Witness ==
  /\ VoiceDone
  /\ Len(voice.call.items) = 2
  /\ NoneResolves(voice.call)
  /\ voice.call.items[1].menu = "200"
  /\ voice.result.raised = "ValueError"
  /\ voice.result.posts = 0

----------------------------------------------------------------------------
(* Ending a session while its order is being submitted *)

\* the orders the Order Service holds for the guest of the session
OrdersOfSession == {i \in 1..Len(db.orders) : db.orders[i].guest_id = "guest1"}

\* C21: a submission in flight when the session is terminated is abandoned:
\* a session terminated while place_order awaited the Order Service never
\* ends with the Order Service holding an order whose id the session did
\* not receive.
C21_NoOrphanedOrder ==
  (submission # NoSubmission /\ submission.phase # "running" /\ submission.cut)
    => \A i \in OrdersOfSession : submission.received = db.orders[i].id

----------------------------------------------------------------------------
(* set_special_requests *)

\* the field after a call that was given the text: the text, or unset when
\* the text is one of the negative phrases
FieldAfter(text) == IF Lower(text.v) \in {S_no, S_none, S_nothing} THEN PyNone ELSE text

\* C31: set_special_requests overwrites special_requests, and delivery_notes,
\* with the text it is given, unless the text is "no", "none" or "nothing" in
\* any case, and then the field is unset after the call; the lines and
\* total_amount are unchanged and the next node is confirm_order.
C31_SpecialRequestsOverwritten ==
  [][\A a \in SpecialArgs :
       Step("set_special_requests", set_special_requests(a[1], a[2])) =>
         /\ Truthy(a[1]) => order_manager'.special_requests = FieldAfter(a[1])
         /\ Truthy(a[2]) => order_manager'.delivery_notes = FieldAfter(a[2])
         /\ order_manager'.items = order_manager.items
         /\ order_manager'.total_amount = order_manager.total_amount
         /\ last'.next = "confirm_order"]_vars

\* the events of a process follow terminate-then-kill: terminate is sent only
\* to a process that has not exited, and kill only right after a wait that
\* timed out on a terminate
GracefulOrder(events) ==
  \A i \in 1 .. Len(events) :
    /\ events[i] = "terminate" =>
         \A j \in 1 .. i - 1 : events[j] \notin {"exited", "kill"}
    /\ events[i] = "kill" =>
         /\ i >= 3
         /\ events[i - 1] = "TimeoutExpired"
         /\ events[i - 2] = "terminate"
    /\ events[i] = "TimeoutExpired" =>
         /\ i >= 2
         /\ events[i - 1] = "terminate"

\* the session's process is registered and process.poll() is None
RegisteredRunning(s) ==
  /\ s \in calls.active_voice_processes
  /\ calls.process[s] = "running"

\* terminate was the first thing sent to the session's process in this step,
\* and the process is no longer running after it
TerminatedFirst(s) ==
  /\ Len(calls'.events[s]) > Len(calls.events[s])
  /\ calls'.events[s][Len(calls.events[s]) + 1] = "terminate"
  /\ calls'.process[s] # "running"

\* C32: ending a voice call follows graceful-terminate-then-force-kill: a
\* process that is still running is sent terminate first, and kill only when
\* the wait of the grace window timed out; after end_voice_call returns, the
\* session has no entry in active_voice_processes and its record has status
\* COMPLETED; the cleanup at process exit stops every registered running
\* process in the same order.
C32_TerminateThenKill ==
  /\ [](\A s \in SessionIds : GracefulOrder(calls.events[s]))
  /\ [][\A s \in SessionIds :
          /\ (\E g \in BOOLEAN : end_voice_call(s, g, FALSE)) =>
               /\ RegisteredRunning(s) => TerminatedFirst(s)
               /\ s \notin calls'.active_voice_processes
               /\ calls.status[s] \notin {"none", "deleted"} =>
                    calls'.status[s] = "COMPLETED"
          /\ (signal_handler \/ atexit_cleanup) =>
               (RegisteredRunning(s) => TerminatedFirst(s))]_vars

C32_Witness ==
  \E s \in SessionIds :
    /\ calls.done = Finished("end_voice_call", s, "returned")
    /\ calls.events[s] = <<"terminate", "TimeoutExpired", "kill">>
    /\ calls.status[s] = "COMPLETED"
    /\ s \notin calls.active_voice_processes
    /\ \E t \in SessionIds : calls.events[t] = <<"terminate", "exited">>

\* every field of the order is unset, there is no line and the total is 0
Cleared(om) ==
  /\ om.guest_id = NoneId
  /\ om.guest_name = PyNone
  /\ om.room_number = PyNone
  /\ om.special_requests = PyNone
  /\ om.delivery_notes = PyNone
  /\ om.order_id = NoneId
  /\ om.items = <<>>
  /\ om.total_amount = 0

\* C33: reset returns the order to its initial state whatever preceded it:
\* guest id, guest name, room number, special requests, delivery notes and
\* order id are unset, the lines are empty and total_amount is 0; a reset
\* that follows a reset changes nothing.
C33_ResetClears ==
  [][Step("reset", call_reset) =>
       /\ Cleared(order_manager')
       /\ last.fn = "reset" => order_manager' = order_manager]_vars

C33_Witness ==
  /\ last.fn = "reset"
  /\ posts = 1
  /\ Cleared(order_manager)

\* the current node and the nodes the flow can reach from it
NodesAhead == {node} \cup ReachedFrom({node}, {})

\* C34: in a session driven by the flow from greeting at most one POST to the
\* Order Service is issued: once place_order has issued a submission,
\* accepted or failed, neither the current node nor any node reachable from
\* it offers place_order.
C34_OnePostPerSession ==
  /\ posts <= 1
  /\ posts >= 1 => \A n \in NodesAhead : "place_order" \notin Functions(n)

C34_Witness ==
  /\ posts = 1
  /\ node = "goodbye"
  /\ last.fn = "end_call"
  /\ order_manager.order_id = NoneId

\* the confirmation place_order reads: the text given, "" when the key is
\* missing, lowercased
Lowercased(a) == Lower(Get(a, PyStr(<<>>)).v)

\* the confirmation is none of "no", "cancel", "stop", "negative"
NotARefusal(a) ==
  Lowercased(a) \notin {<<"n","o">>, <<"c","a","n","c","e","l">>,
                        <<"s","t","o","p">>,
                        <<"n","e","g","a","t","i","v","e">>}

\* C35: place_order issues a POST to the Order Service exactly when the
\* lowercased confirmation is none of "no", "cancel", "stop", "negative" and
\* the order has a line; every other text, the empty one, a missing one and
\* "no thanks" included, goes on to the submission as a confirmation does.
C35_PostIffNotRefusedAndNonEmpty ==
  [][\A a \in ConfirmationTexts \ {PyNone} :
       (/\ last'.fn = "place_order"
        /\ util'.text = a
        /\ \E outcome \in PostOutcomes : place_order(a, outcome)) =>
         /\ posts' = posts + 1 <=>
              (NotARefusal(a) /\ order_manager.items # <<>>)
         /\ posts' = posts + 1 \/ posts' = posts
         /\ last'.status = "cancelled" <=> ~NotARefusal(a)
         /\ last'.status \in {"success", "failed"} <=> posts' = posts + 1]_vars

C35_Witness ==
  /\ last.fn = "place_order"
  /\ util.text = PyStr(<<"n","o"," ","t","h","a","n","k","s">>)
  /\ last.status = "success"
  /\ posts = 1
  /\ order_manager.items # <<>>

\* C36: wherever a session driven by the flow from greeting is at
\* confirm_order, the order's guest id is set, a validate_room having
\* succeeded earlier; no submission carries an unset guest id.
C36_GuestSetAtConfirmation ==
  /\ node = "confirm_order" => order_manager.guest_id # NoneId
  /\ posts >= 1 => order_manager.guest_id # NoneId
  /\ order_manager.guest_id # NoneId =>
       /\ order_manager.guest_id \in {g.id : g \in GuestDB}
       /\ node \notin {"greeting", "request_room", "invalid_room"}

C36_Witness ==
  /\ node = "confirm_order"
  /\ last.fn = "set_special_requests"
  /\ order_manager.guest_id = "guest1"
  /\ posts = 0

\* C37: wherever a session driven by the flow from greeting is at
\* confirm_order, the order has a line: the flow removes none, so place_order
\* never answers 'empty' and the session is never at empty_order.
C37_LinesAtConfirmation ==
  /\ node = "confirm_order" => Len(order_manager.items) >= 1
  /\ node # "empty_order"
  /\ last.fn = "place_order" => last.status # "empty"
  /\ node \in {"item_added", "request_special"} => Len(order_manager.items) >= 1

C37_Witness ==
  /\ node = "confirm_order"
  /\ last.fn = "set_special_requests"
  /\ Len(order_manager.items) = 2
  /\ posts = 0

\* C38: after any sequence of actions and outcomes from greeting the session
\* is on a node the flow declares, which offers a function unless it is
\* goodbye, and from which goodbye is reachable.
C38_GoodbyeReachable ==
  /\ node \in Nodes
  /\ node # "goodbye" => Functions(node) # {}
  /\ "goodbye" \in NodesAhead

\* C39: every turn of the concierge terminates: whatever the message and the
\* prior state, the walk process_message starts at guest_validation reaches
\* END, and is never cut off by the recursion limit, a captured room number
\* and an intent that routes to menu_retrieval_agent, order_management_agent
\* or general_agent included.
C39_TurnReachesEnd == graph.at # "GraphRecursionError"
=============================================================================
